---- MODULE Spec2Model ----
(***************************************************************************)
(* A model of rest_framework_mongoengine: the polymorphic chain map of     *)
(* utils.py, the depth-bounded field tree of fields.py, the serializer     *)
(* facade of serializers.py (representation, validation, field building,   *)
(* create and update) and the reference namespace of ld.py.                *)
(*                                                                         *)
(* Each part of the program has its own specification; the variables of   *)
(* the other parts are held at Idle.                                       *)
(***************************************************************************)
EXTENDS Integers, Sequences, FiniteSets, TLC

VARIABLES
    sers,       \* chain map: the PolymorphicDocumentSerializer instances built so far
    maps,       \* chain map: the heap of ChainMap objects
    lookup,     \* chain map: PolymorphicChainMap.lookup, class -> ChainMap object
    res,        \* chain map: what the last operation did and returned
    walk,       \* field tree: the field under test, Meta.depth, the value, the result
    rep,        \* facade: one run of a serializer's to_representation
    val,        \* validation: one run of is_valid / a container's to_internal_value
    bld,        \* schema build: one field node or one field set built from a schema
    wr          \* writes: one run of a serializer's create / update

vars == <<sers, maps, lookup, res, walk, rep, val, bld, wr>>

Idle == [op |-> "idle"]

(***************************************************************************)
(* Bounds                                                                  *)
(***************************************************************************)
\* serializers constructed in one run of the chain map
MaxSer == 2

(***************************************************************************)
(* The document schemas of the chain map: a polymorphic hierarchy          *)
(*     Base <- A <- G        Base <- B <- H                                *)
(* A adds x, B adds y, G adds z and overrides Base's n, H adds h.          *)
(***************************************************************************)
NoClass == "None"

Classes == {"Base", "A", "B", "G", "H"}

Parent(c) ==
    CASE c = "Base" -> NoClass
      [] c = "A" -> "Base"
      [] c = "B" -> "Base"
      [] c = "G" -> "A"
      [] c = "H" -> "B"

Declared(c) ==
    CASE c = "Base" -> {"id", "n"}
      [] c = "A" -> {"x"}
      [] c = "B" -> {"y"}
      [] c = "G" -> {"z", "n"}
      [] c = "H" -> {"h"}

\* inspect.getmro(item)[::-1] restricted to the document classes: root first
RECURSIVE MroReversed(_)
MroReversed(c) ==
    IF c = NoClass THEN <<>> ELSE Append(MroReversed(Parent(c)), c)

Range(s) == {s[i] : i \in DOMAIN s}

\* issubclass(c, k)
IsSubclass(c, k) == k \in Range(MroReversed(c))

\* kls._fields: name -> descriptor. A descriptor is identified by the class
\* that declares it: a subclass inherits the very objects of its base and
\* replaces the ones it declares again.
RECURSIVE ClassFields(_)
ClassFields(c) ==
    IF c = NoClass THEN <<>>
    ELSE LET inherited == ClassFields(Parent(c))
         IN  [n \in DOMAIN inherited \cup Declared(c) |->
                 IF n \in Declared(c) THEN <<n, c>> ELSE inherited[n]]

\* kls._fields.values()
FieldValues(c) == {ClassFields(c)[n] : n \in DOMAIN ClassFields(c)}

(***************************************************************************)
(* Field nodes and ChainMap objects                                        *)
(***************************************************************************)
\* serializer.get_field_mapping(field)(**serializer.get_field_kwargs(field)),
\* bound to the serializer by its BindingDict
FieldNode(s, desc) == [name |-> desc[1], decl |-> desc[2], ser |-> s]

\* ChainMap(delta_fields, parentView): _maps = [delta_fields, parentView]
NewChainMap(delta, parent) == [delta |-> delta, parent |-> parent]

\* the view a new tier is chained onto: self.lookup[last_kls]
ParentViewWrong(st) == Len(st.maps)
ParentView(st) == st.lookup[st.last]

DeltaByName(kls, last) ==
    {n \in DOMAIN ClassFields(kls) : n \notin DOMAIN ClassFields(last)}

\* the delta of kls: the fields of kls that are not (by identity) fields of last_kls
Delta(kls, last) ==
    {n \in DOMAIN ClassFields(kls) : ClassFields(kls)[n] \notin FieldValues(last)}

\* the body of the loop of __getitem__ for a class that has no view yet
NewTier(s, kls, st) ==
    LET delta == [n \in Delta(kls, st.last) |-> FieldNode(s, ClassFields(kls)[n])]
        m     == Append(st.maps, NewChainMap(delta, ParentView(st)))
    IN  [st EXCEPT !.maps = m,
                   !.lookup = (kls :> Len(m)) @@ st.lookup,
                   !.built = st.built \cup Range(delta),
                   !.tiers = Append(st.tiers, kls)]

\* the loop of __getitem__ over inspect.getmro(item)[::-1]
RECURSIVE Generate(_, _, _, _)
Generate(s, klass, mro, st) ==
    IF mro = <<>> THEN st
    ELSE LET kls == Head(mro)
         IN  IF IsSubclass(klass, kls)
                 THEN Generate(s, klass, Tail(mro), st)
             ELSE IF kls \in DOMAIN st.lookup
                 THEN Generate(s, klass, Tail(mro), [st EXCEPT !.last = kls])
             ELSE Generate(s, klass, Tail(mro), NewTier(s, kls, st))

\* ChainMap.__lookup / __getitem__: the own mapping first, then the parent view
KeyError == [name |-> "KeyError", decl |-> NoClass, ser |-> 0]

RECURSIVE ChainLookupParentFirst(_, _, _)
ChainLookupParentFirst(heap, m, key) ==
    LET up == IF heap[m].parent = 0 THEN KeyError
              ELSE ChainLookupParentFirst(heap, heap[m].parent, key)
    IN  IF up # KeyError THEN up
        ELSE IF key \in DOMAIN heap[m].delta THEN heap[m].delta[key]
        ELSE KeyError

RECURSIVE ChainLookupOwnFirst(_, _, _)
ChainLookupOwnFirst(heap, m, key) ==
    IF key \in DOMAIN heap[m].delta THEN heap[m].delta[key]
    ELSE IF heap[m].parent = 0 THEN KeyError
    ELSE ChainLookupOwnFirst(heap, heap[m].parent, key)

ChainLookup(heap, m, key) == ChainLookupOwnFirst(heap, m, key)

\* ChainMap.__iter__: set().union(*self._maps)
RECURSIVE ChainKeys(_, _)
ChainKeys(heap, m) ==
    DOMAIN heap[m].delta \cup
        (IF heap[m].parent = 0 THEN {} ELSE ChainKeys(heap, heap[m].parent))

\* every node a view can return
ChainNodes(heap, m) == {ChainLookup(heap, m, k) : k \in ChainKeys(heap, m)}

(***************************************************************************)
(* The chain map's operations                                              *)
(***************************************************************************)
InitChain ==
    /\ sers = <<>>
    /\ maps = <<>>
    /\ lookup = <<>>
    /\ res = Idle
    /\ walk = Idle
    /\ rep = Idle
    /\ val = Idle /\ bld = Idle /\ wr = Idle

\* PolymorphicDocumentSerializer.__init__: self.fields is built from the
\* model's fields and handed to PolymorphicChainMap.__init__ as base_fields,
\* which stores ChainMap(base_dict) under the serializer's model
NewSerializer(k) ==
    /\ Len(sers) < MaxSer
    /\ LET s      == Len(sers) + 1
           fields == [n \in DOMAIN ClassFields(k) |-> FieldNode(s, ClassFields(k)[n])]
           m      == Append(maps, NewChainMap(fields, 0))
       IN  /\ sers' = Append(sers, [klass |-> k])
           /\ maps' = m
           /\ lookup' = (k :> Len(m)) @@ lookup
           /\ res' = [op |-> "init", ser |-> s, item |-> k, view |-> Len(m),
                      built |-> Range(fields), tiers |-> <<>>, hit |-> FALSE]
    /\ UNCHANGED <<walk, rep, val, bld, wr>>

\* PolymorphicChainMap.__getitem__(item) on the chain map of serializer s
GetItem(s, item) ==
    /\ s \in DOMAIN sers
    /\ IF item \in DOMAIN lookup
           THEN /\ res' = [op |-> "getitem", ser |-> s, item |-> item,
                           view |-> lookup[item], built |-> {}, tiers |-> <<>>,
                           hit |-> TRUE]
                /\ UNCHANGED <<maps, lookup>>
       ELSE IF ~IsSubclass(item, sers[s].klass)
           THEN /\ res' = [op |-> "AssertionError", ser |-> s, item |-> item,
                           view |-> 0, built |-> {}, tiers |-> <<>>, hit |-> FALSE]
                /\ UNCHANGED <<maps, lookup>>
       ELSE LET st == Generate(s, sers[s].klass, MroReversed(item),
                               [maps |-> maps, lookup |-> lookup,
                                last |-> sers[s].klass, built |-> {},
                                tiers |-> <<>>])
            IN  /\ maps' = st.maps
                /\ lookup' = st.lookup
                /\ res' = [op |-> "getitem", ser |-> s, item |-> item,
                           view |-> st.lookup[item], built |-> st.built,
                           tiers |-> st.tiers, hit |-> FALSE]
    /\ UNCHANGED <<sers, walk, rep, val, bld, wr>>

\* the models serializers are declared for (Meta.model)
SerializerModels == {"Base", "A", "B"}

NextChain ==
    \/ \E k \in SerializerModels : NewSerializer(k)
    \/ \E s \in 1..MaxSer, item \in Classes : GetItem(s, item)

SpecChain == InitChain /\ [][NextChain]_vars

(***************************************************************************)
(* Claims about the chain map                                              *)
(***************************************************************************)
\* the names a cached view of class c resolves
ViewNames(c) == ChainKeys(maps, lookup[c])

BaseNames == DOMAIN ClassFields("Base")

\* C1: whatever was looked up before and in whatever order, the view of A
\* holds the names of Base plus x and not y, the view of B the names of Base
\* plus y and not x, the view of Base neither; the same one level down (G
\* under A, H under B): no view holds a field a sibling branch added.
C1_SiblingsDontInterfere ==
    /\ "Base" \in DOMAIN lookup =>
           ViewNames("Base") = BaseNames /\ ViewNames("Base") \cap {"x", "y"} = {}
    /\ "A" \in DOMAIN lookup =>
           ViewNames("A") = BaseNames \cup {"x"} /\ "y" \notin ViewNames("A")
    /\ "B" \in DOMAIN lookup =>
           ViewNames("B") = BaseNames \cup {"y"} /\ "x" \notin ViewNames("B")
    /\ "G" \in DOMAIN lookup =>
           ViewNames("G") = BaseNames \cup {"x", "z"}
    /\ "H" \in DOMAIN lookup =>
           ViewNames("H") = BaseNames \cup {"y", "h"}

\* the views of both branches exist, the second one built after the first
C1_Witness ==
    /\ {"Base", "A", "B", "G", "H"} \subseteq DOMAIN lookup
    /\ lookup["A"] < lookup["B"]
    /\ lookup["H"] < lookup["G"]

\* the most-derived class on c's ancestor chain that declares n
RECURSIVE DeclaringClass(_, _)
DeclaringClass(c, n) ==
    IF c = NoClass THEN NoClass
    ELSE IF n \in Declared(c) THEN c
    ELSE DeclaringClass(Parent(c), n)

\* C2: in the view of every class S, a name n resolves to the node built from
\* the descriptor of the most-derived class on S's ancestor chain that
\* declares n (own mapping first, then the chain toward the root); a name no
\* class of the chain declares does not resolve.
C2_MostDerivedWins ==
    \A c \in DOMAIN lookup :
        \A n \in UNION {Declared(k) : k \in Classes} :
            LET node == ChainLookup(maps, lookup[c], n)
            IN  IF DeclaringClass(c, n) = NoClass
                    THEN node = KeyError
                    ELSE node.name = n /\ node.decl = DeclaringClass(c, n)

\* G's view was generated on top of a view that holds Base's n, and resolves
\* n to G's override and x to the node of its ancestor A
C2_Witness ==
    /\ "G" \in DOMAIN lookup
    /\ maps[lookup["G"]].parent # 0
    /\ "n" \in ChainKeys(maps, maps[lookup["G"]].parent)
    /\ ChainLookup(maps, lookup["G"], "n").decl = "G"
    /\ ChainLookup(maps, lookup["G"], "x").decl = "A"

\* C9: once the cache holds a view for a schema, no later operation evicts
\* or replaces that entry.
C9_CacheEntryNeverReplaced ==
    [][\A c \in DOMAIN lookup : c \in DOMAIN lookup' /\ lookup'[c] = lookup[c]]_vars

(***************************************************************************)
(* The field tree of fields.py                                             *)
(***************************************************************************)
\* Bounds of the field tree
\* the largest Meta.depth configured besides the default
MaxDepth == 3
\* the deepest chain of nested Part values in an instance
MaxData == 4
\* calls of to_representation / to_internal_value on one field node
MaxCalls == 2

\* DocumentSerializer.MAX_RECURSION_DEPTH, the depth when Meta sets none
MAX_RECURSION_DEPTH == 5

\* DocumentField.__init__: "better hotwire"
DereferenceRefs == FALSE
\* DocumentField.__init__: self.ignore_depth = False
IgnoreDepth == FALSE

\* Values: raw instance data, JSON-like input and output share one shape.
\*   t    the kind of value
\*   n    a number: an int, an identity
\*   cls  a document class name
\*   f    the parts: a document's _data in schema order, list items, map values
\*   ks   the keys of a mapping
Value(t, n, cls, f, ks) == [t |-> t, n |-> n, cls |-> cls, f |-> f, ks |-> ks]

Null == Value("null", 0, "", <<>>, <<>>)
IntV(n) == Value("int", n, "", <<>>, <<>>)
OidV(n) == Value("oid", n, "", <<>>, <<>>)
\* the text of a number or identity
StrV(n) == Value("str", n, "", <<>>, <<>>)
\* a text that is no identity
BadStr == Value("str", 0, "garbage", <<>>, <<>>)
DBRefV(cls, id) == Value("dbref", id, cls, <<>>, <<>>)
DocV(cls, id, data) == Value("doc", id, cls, data, <<>>)
EmbV(cls, data) == Value("emb", 0, cls, data, <<>>)
\* a raw dict that carries _cls of a registered embedded document
SonV(cls, data) == Value("son", 0, cls, data, <<>>)
\* a boolean and a text
BoolV(b) == Value("bool", IF b THEN 1 ELSE 0, "", <<>>, <<>>)
TextV(t) == Value("text", 0, t, <<>>, <<>>)
ListV(items) == Value("list", 0, "", items, <<>>)
MapV(keys, vals) == Value("map", 0, "", vals, keys)
\* the OrderedDict a document is represented as
OMap(keys, vals) == Value("omap", 0, "", vals, keys)
\* "%s Object: Out of Depth" % type(value).__name__
OutOfDepthText(cls) == Value("str", 0, cls \o " Object: Out of Depth", <<>>, <<>>)
\* "Embedded Document " + cls + " (out of depth)"
OutOfDepthDictText(cls) ==
    Value("str", 0, "Embedded Document " \o cls \o " (out of depth)", <<>>, <<>>)
\* an exception leaves the call
Raise(what) == Value("raise", 0, what, <<>>, <<>>)
IsRaise(v) == v.t = "raise"

\* smart_str(value)
SmartStr(v) ==
    IF v.t = "null" THEN Value("str", 0, "None", <<>>, <<>>)
    ELSE IF v.t \in {"oid", "int"} THEN StrV(v.n)
    ELSE v

\* The model field descriptors: kind, referenced/embedded document class,
\* element descriptor of a container
Desc(d) ==
    CASE d = "int"         -> [k |-> "int",  doc |-> "",     elem |-> ""]
      [] d = "oid"         -> [k |-> "oid",  doc |-> "",     elem |-> ""]
      [] d = "refDoc"      -> [k |-> "ref",  doc |-> "Doc",  elem |-> ""]
      [] d = "embPart"     -> [k |-> "emb",  doc |-> "Part", elem |-> ""]
      [] d = "embMileage"  -> [k |-> "emb",  doc |-> "Mileage", elem |-> ""]
      [] d = "listEmbPart" -> [k |-> "list", doc |-> "",     elem |-> "embPart"]
      [] d = "mapEmbPart"  -> [k |-> "map",  doc |-> "",     elem |-> "embPart"]
      [] d = "listMileage" -> [k |-> "list", doc |-> "",     elem |-> "embMileage"]
      [] d = "listInt"     -> [k |-> "list", doc |-> "",     elem |-> "int"]
      [] d = "mapInt"      -> [k |-> "map",  doc |-> "",     elem |-> "int"]
      [] d = "listRefDoc"  -> [k |-> "list", doc |-> "",     elem |-> "refDoc"]
      [] d = "dyn"         -> [k |-> "dyn",  doc |-> "",     elem |-> ""]
      [] d = "dict"        -> [k |-> "dict", doc |-> "",     elem |-> ""]

\* model._fields in order: <<name, descriptor>>.
\*   Part     an embedded document that embeds itself: directly (sub), through
\*            a list (subs) and through a map (kin)
\*   Mileage  the embedded document of two ints
\*   Doc      a document that references itself (friend, friends)
Schema(cls) ==
    CASE cls = "Part" ->
            << <<"val", "int">>, <<"sub", "embPart">>,
               <<"subs", "listEmbPart">>, <<"kin", "mapEmbPart">> >>
      [] cls = "Mileage" ->
            << <<"loaded", "int">>, <<"unloaded", "int">> >>
      [] cls = "Doc" ->
            << <<"id", "oid">>, <<"friend", "refDoc">>, <<"part", "embPart">>,
               <<"parts", "listEmbPart">>, <<"pmap", "mapEmbPart">>,
               <<"nums", "listInt">>, <<"imap", "mapInt">>,
               <<"mpgs", "listMileage">>, <<"friends", "listRefDoc">>,
               <<"extra", "dyn">>, <<"meta", "dict">> >>

\* The identities of the documents in the collection
StoredIds == {1}

\* The stored document a reference points at: every Doc references itself
\* and has its other fields unset
EmptyList == ListV(<<>>)
EmptyMap == MapV(<<>>, <<>>)
Stored(cls, id) ==
    DocV(cls, id, << OidV(id), DBRefV(cls, id), Null, EmptyList, EmptyMap,
                     EmptyList, EmptyMap, EmptyList, EmptyList, Null, EmptyMap >>)
\* the attribute read of a reference (and DeReference): the document itself
Dereference(v) == IF v.t = "dbref" THEN Stored(v.cls, v.n) ELSE v

FieldNames(cls) == [i \in DOMAIN Schema(cls) |-> Schema(cls)[i][1]]

\* DocumentSerializer.is_drfme_field: the kinds of _drfme_field_mapping
IsDrfme(k) == k \in {"oid", "ref", "list", "map", "emb", "dyn", "dict"}

\* DocumentField.go_deeper
GoDeeperIgnoresFlag(depth, isRef) ==
    IF isRef THEN depth > 0
    ELSE depth # 0 \/ IgnoreDepth
GoDeeper(depth, isRef) ==
    IF isRef THEN depth # 0 /\ DereferenceRefs
    ELSE depth # 0 \/ IgnoreDepth

\* get_subfield_kwargs: kwargs['depth'] = self.depth - 1 for a drfme field;
\* any other field takes no depth (0 stands for "none" and is never read)
ChildDepth(d, depth) == IF IsDrfme(Desc(d).k) THEN depth - 1 ELSE 0

\* the nodes get_subfield builds for the descriptors ds under a node of the
\* given kind and depth: only drfme nodes carry a depth budget
BuiltNodes(kind, depth, ds) ==
    {[kind |-> Desc(d).k, depth |-> depth - 1, pkind |-> kind, pdepth |-> depth] :
        d \in {x \in ds : IsDrfme(Desc(x).k)}}

\* What a call did: its return value (or the exception), the nodes it built,
\* the nodes that expanded children, the child calls made with a null value
Quiet(o) == [out |-> o, nodes |-> {}, expands |-> {}, nullcalls |-> {}]

EmptyAcc == [outs |-> <<>>, nodes |-> {}, expands |-> {}, nullcalls |-> {},
             raised |-> Null]

RECURSIVE ToRepresentation(_, _, _)
RECURSIVE RepChildren(_, _, _, _)
RECURSIVE RepDictItems(_, _, _, _)

\* one child call after the other; an exception ends the loop.
\* items[i] = the child's descriptor, its depth, the value, and whether the
\* caller tests the value for None before calling
RepChildren(kind, items, i, acc) ==
    IF i > Len(items) \/ IsRaise(acc.raised) THEN acc
    ELSE LET it == items[i]
             r  == IF it.guard /\ it.v = Null THEN Quiet(Null)
                   ELSE ToRepresentation(it.d, it.depth, it.v)
             nc == IF ~it.guard /\ it.v = Null
                       THEN {[parent |-> kind, child |-> Desc(it.d).k]}
                       ELSE {}
         IN  RepChildren(kind, items, i + 1,
                 [outs |-> Append(acc.outs, r.out),
                  nodes |-> acc.nodes \cup r.nodes,
                  expands |-> acc.expands \cup r.expands,
                  nullcalls |-> acc.nullcalls \cup r.nullcalls \cup nc,
                  raised |-> IF IsRaise(r.out) THEN r.out ELSE Null])

\* the loop over the fields of a document value: get_document_subfields(cls)
\* built by a node of the given kind and depth, each child represented
ExpandDocument(kind, depth, cls, data, guard) ==
    LET sch   == Schema(cls)
        items == [i \in DOMAIN sch |->
                     [d |-> sch[i][2], depth |-> ChildDepth(sch[i][2], depth),
                      v |-> data[i], guard |-> guard]]
        r     == RepChildren(kind, items, 1, EmptyAcc)
    IN  [out |-> IF IsRaise(r.raised) THEN r.raised ELSE OMap(FieldNames(cls), r.outs),
         nodes |-> r.nodes \cup BuiltNodes(kind, depth, {sch[i][2] : i \in DOMAIN sch}),
         expands |-> r.expands \cup {[kind |-> kind, depth |-> depth]},
         nullcalls |-> r.nullcalls]

\* ListField.to_representation / MapField.to_representation: the one nested
\* field of get_fields, applied to every element in order
RepElementsReversed(kind, depth, elem, vals) ==
    LET n     == Len(vals)
        items == [i \in DOMAIN vals |->
                     [d |-> elem, depth |-> ChildDepth(elem, depth),
                      v |-> vals[n + 1 - i], guard |-> FALSE]]
    IN  RepChildren(kind, items, 1, EmptyAcc)

RepElements(kind, depth, elem, vals) ==
    LET items == [i \in DOMAIN vals |->
                     [d |-> elem, depth |-> ChildDepth(elem, depth),
                      v |-> vals[i], guard |-> FALSE]]
    IN  RepChildren(kind, items, 1, EmptyAcc)

RepContainer(kind, depth, elem, v) ==
    LET r == RepElements(kind, depth, elem, v.f)
    IN  [out |-> IF IsRaise(r.raised) THEN r.raised
                 ELSE IF kind = "list" THEN ListV(r.outs) ELSE MapV(v.ks, r.outs),
         nodes |-> r.nodes \cup BuiltNodes(kind, depth, {elem}),
         expands |-> r.expands \cup
                     (IF IsDrfme(Desc(elem).k)
                          THEN {[kind |-> kind, depth |-> depth]} ELSE {}),
         nullcalls |-> r.nullcalls]

\* DictField.to_representation, one item after the other
RepDictItems(depth, vals, i, acc) ==
    IF i > Len(vals) \/ IsRaise(acc.raised) THEN acc
    ELSE LET item == vals[i]
             r == IF item.t = "dbref"
                      THEN IF GoDeeper(depth, TRUE)
                               \* DeReference()([item])[0]: the stored document
                               THEN ExpandDocument("dict", depth, item.cls,
                                        Dereference(item).f, FALSE)
                               ELSE Quiet(SmartStr(OidV(item.n)))
                  ELSE IF item.t = "son"
                      THEN IF GoDeeper(depth, FALSE)
                               THEN ExpandDocument("dict", depth, item.cls, item.f, FALSE)
                               ELSE Quiet(OutOfDepthDictText(item.cls))
                  ELSE Quiet(item)
         IN  RepDictItems(depth, vals, i + 1,
                 [outs |-> Append(acc.outs, r.out),
                  nodes |-> acc.nodes \cup r.nodes,
                  expands |-> acc.expands \cup r.expands,
                  nullcalls |-> acc.nullcalls \cup r.nullcalls,
                  raised |-> IF IsRaise(r.out) THEN r.out ELSE Null])

\* to_representation of the nodes without sub-fields:
\* IntegerField.to_representation is int(value), ObjectIdField's smart_str(value)
LeafToRepresentation(k, v) ==
    IF k = "int" THEN (IF v.t = "int" THEN v ELSE Raise("TypeError"))
    ELSE SmartStr(v)

\* field.to_representation(v) of the node built from descriptor d at the
\* given depth
ToRepresentation(d, depth, v) ==
    LET k == Desc(d).k
    IN  CASE k \in {"int", "oid"} -> Quiet(LeafToRepresentation(k, v))
          [] k = "ref" ->
                IF v = Null THEN Quiet(Null)
                ELSE IF GoDeeper(depth, TRUE)
                    THEN ExpandDocument("ref", depth, v.cls, Dereference(v).f, FALSE)
                ELSE IF v.t \in {"dbref", "doc"} THEN Quiet(SmartStr(OidV(v.n)))
                ELSE Quiet(SmartStr(v))
          [] k \in {"list", "map"} -> RepContainer(k, depth, Desc(d).elem, v)
          [] k = "emb" ->
                IF v = Null THEN Quiet(Null)
                ELSE IF GoDeeper(depth, FALSE)
                    THEN ExpandDocument("emb", depth, Desc(d).doc, v.f, TRUE)
                ELSE Quiet(Raise("OutOfDepth"))
          [] k = "dyn" ->
                IF v.t = "doc"
                    THEN IF GoDeeper(depth, TRUE)
                             THEN ExpandDocument("dyn", depth, v.cls, v.f, FALSE)
                             ELSE Quiet(SmartStr(OidV(v.n)))
                ELSE IF v.t = "emb"
                    THEN IF GoDeeper(depth, FALSE)
                             THEN ExpandDocument("dyn", depth, v.cls, v.f, FALSE)
                             ELSE Quiet(OutOfDepthText(v.cls))
                ELSE Quiet(v)
          [] k = "dict" ->
                LET r == RepDictItems(depth, v.f, 1, EmptyAcc)
                IN  [out |-> IF IsRaise(r.raised) THEN r.raised ELSE MapV(v.ks, r.outs),
                     nodes |-> r.nodes, expands |-> r.expands,
                     nullcalls |-> r.nullcalls]

\* field.get_attribute(instance) followed by the None test of
\* DocumentSerializer.to_representation and field.to_representation
RepresentField(d, depth, v) ==
    IF Desc(d).k = "emb" /\ ~GoDeeper(depth, FALSE) THEN Quiet(Raise("OutOfDepth"))
    ELSE IF v = Null THEN Quiet(Null)
    ELSE ToRepresentation(d, depth, v)

(***************************************************************************)
(* Input: to_internal_value of the field nodes                             *)
(***************************************************************************)
\* An exception: cls is its type, ks its message key
RaiseWith(type, key) == Value("raise", 0, type, <<>>, <<key>>)
\* rest_framework's or django's ValidationError: the serializer collects it
IsValidationError(v) == v.t = "raise" /\ v.cls = "ValidationError"

\* the keys of error_messages of the field classes of fields.py: no class
\* declares default_error_messages, so only those of the base Field
ErrorMessages == {"required", "null"}

\* Field.fail(key): a ValidationError with the message of the key; a key
\* without message is an AssertionError
Fail(key) ==
    IF key \in ErrorMessages THEN RaiseWith("ValidationError", key)
    ELSE RaiseWith("AssertionError", key)

\* a mapping key as a value (iterating a dict yields its keys)
KeyText(key) == Value("str", 0, key, <<>>, <<>>)

\* ObjectId(data): the identity a well-formed text stands for
ObjectIdOf(data) ==
    IF data.t = "oid" THEN data
    ELSE IF data.t = "str" /\ data.cls = "" THEN OidV(data.n)
    ELSE IF data.t = "str" THEN RaiseWith("InvalidId", "")
    ELSE RaiseWith("TypeError", "")

\* model_field.to_python(data) of a mongoengine ReferenceField: a DBRef to the
\* identity. Whether a malformed identity raises InvalidId or is kept as it
\* is depends on the mongoengine release (lenient).
ReferenceToPython(doc, data, lenient) ==
    IF data.t \in {"dbref", "doc"} THEN data
    ELSE LET id == ObjectIdOf(data)
         IN  IF ~IsRaise(id) THEN DBRefV(doc, id.n)
             ELSE IF lenient THEN Value("dbref", 0, doc, <<data>>, <<>>)
             ELSE RaiseWith("InvalidId", "")

\* model_field.to_python(data) of a mongoengine EmbeddedDocumentField:
\* document_type._from_son(data), each int field converted
IntToPython(x) == IF x.t = "str" /\ x.cls = "" THEN IntV(x.n) ELSE x
EmbeddedToPython(doc, data) ==
    IF data.t = "emb" THEN data
    ELSE IF data.t # "omap" THEN RaiseWith("TypeError", "")
    ELSE LET sch == Schema(doc)
             at(name) == IF \E j \in DOMAIN data.ks : data.ks[j] = name
                             THEN data.f[CHOOSE j \in DOMAIN data.ks : data.ks[j] = name]
                             ELSE Null
         IN  EmbV(doc, [i \in DOMAIN sch |->
                           IF Desc(sch[i][2]).k = "int" THEN IntToPython(at(sch[i][1]))
                           ELSE IF at(sch[i][1]) # Null THEN at(sch[i][1])
                           ELSE IF Desc(sch[i][2]).k = "list" THEN EmptyList
                           ELSE IF Desc(sch[i][2]).k = "map" THEN EmptyMap
                           ELSE Null])

RECURSIVE ToInternalValue(_, _, _)
RECURSIVE RunValidation(_, _, _)
RECURSIVE ValidateItems(_, _, _, _, _)

\* [serializer_field.run_validation(item) for item in data]: the first
\* exception ends the loop
ValidateItems(elem, lenient, items, i, acc) ==
    IF i > Len(items) \/ IsRaise(acc.raised) THEN acc
    ELSE LET r == RunValidation(elem, lenient, items[i])
         IN  ValidateItems(elem, lenient, items, i + 1,
                 [outs |-> Append(acc.outs, r),
                  raised |-> IF IsRaise(r) THEN r ELSE Null])

\* isinstance(data, type('')) or not hasattr(data, '__iter__')
NotIterable(data) == data.t \notin {"list", "map", "omap"}

\* ListField.to_internal_value / MapField.to_internal_value
ListToInternal(elem, lenient, data) ==
    IF NotIterable(data) THEN Fail("not_a_list")
    ELSE LET items == IF data.t = "list" THEN data.f
                      ELSE [i \in DOMAIN data.ks |-> KeyText(data.ks[i])]
             r == ValidateItems(elem, lenient, items, 1,
                                [outs |-> <<>>, raised |-> Null])
         IN  IF IsRaise(r.raised) THEN r.raised ELSE ListV(r.outs)

MapToInternal(elem, lenient, data) ==
    IF NotIterable(data) THEN Fail("not_a_dict")
    \* for key in data: data[key] with a list for data
    ELSE IF data.t = "list"
        THEN IF data.f = <<>> THEN MapV(<<>>, <<>>) ELSE RaiseWith("TypeError", "")
    ELSE LET r == ValidateItems(elem, lenient, data.f, 1,
                                [outs |-> <<>>, raised |-> Null])
         IN  IF IsRaise(r.raised) THEN r.raised ELSE MapV(data.ks, r.outs)

\* field.to_internal_value(data) of the node built from descriptor d
ToInternalValue(d, lenient, data) ==
    LET k == Desc(d).k
    IN  CASE k = "int" ->
                \* IntegerField.to_internal_value: int(data)
                IF data.t = "int" THEN data
                ELSE IF data.t = "str" /\ data.cls = "" THEN IntV(data.n)
                ELSE RaiseWith("ValidationError", "invalid")
          [] k = "oid" -> ObjectIdOf(data)
          [] k = "ref" ->
                LET dbref == ReferenceToPython(Desc(d).doc, data, lenient)
                IN  IF IsRaise(dbref) /\ dbref.cls = "InvalidId"
                        \* ValidationError(self.error_messages['invalid_dbref'])
                        THEN IF "invalid_dbref" \in ErrorMessages
                                 THEN RaiseWith("ValidationError", "invalid_dbref")
                                 ELSE RaiseWith("KeyError", "invalid_dbref")
                        ELSE dbref
          [] k = "list" -> ListToInternal(Desc(d).elem, lenient, data)
          [] k = "map" -> MapToInternal(Desc(d).elem, lenient, data)
          [] k = "emb" -> EmbeddedToPython(Desc(d).doc, data)
          [] k \in {"dyn", "dict"} -> data

\* Field.run_validation: None is refused (no node is built with allow_null),
\* anything else goes to to_internal_value
RunValidation(d, lenient, data) ==
    IF data = Null THEN Fail("null")
    ELSE ToInternalValue(d, lenient, data)

\* the input a client can send for the field built from descriptor d
MileageJson(a, b) == OMap(<<"loaded", "unloaded">>, <<a, b>>)

InputsOf(d) ==
    CASE d = "oid" -> {StrV(1), OidV(1), BadStr, IntV(5), Null}
      [] d = "refDoc" -> {StrV(1), StrV(2), DBRefV("Doc", 1), BadStr, Null}
      [] d = "embPart" -> {OMap(<<"val">>, <<StrV(1)>>), BadStr}
      [] d = "listEmbPart" -> {EmptyList, ListV(<<OMap(<<"val">>, <<IntV(1)>>)>>), BadStr}
      [] d = "mapEmbPart" -> {EmptyMap, MapV(<<"k">>, <<OMap(<<"val">>, <<IntV(1)>>)>>), IntV(5)}
      [] d = "listInt" ->
            {EmptyList, ListV(<<IntV(1), StrV(2)>>), ListV(<<IntV(3), IntV(1), IntV(2)>>),
             ListV(<<IntV(1), Null>>), ListV(<<BadStr>>), BadStr, IntV(5),
             MapV(<<"a">>, <<IntV(1)>>)}
      [] d = "mapInt" ->
            {EmptyMap, MapV(<<"b", "a">>, <<IntV(1), StrV(2)>>),
             MapV(<<"a", "b">>, <<StrV(1), IntV(2)>>), MapV(<<"a">>, <<BadStr>>),
             BadStr, IntV(5), ListV(<<IntV(1)>>)}
      [] d = "listMileage" ->
            {ListV(<<MileageJson(IntV(1), IntV(2))>>),
             ListV(<<MileageJson(StrV(3), IntV(4)), MileageJson(IntV(1), IntV(2))>>),
             ListV(<<IntV(1)>>)}
      [] d = "listRefDoc" ->
            {EmptyList, ListV(<<StrV(2), StrV(1)>>), ListV(<<StrV(1), BadStr>>)}
      [] d = "dyn" -> {IntV(7), OMap(<<"val">>, <<IntV(1)>>)}
      [] d = "dict" -> {EmptyMap, MapV(<<"i">>, <<IntV(7)>>)}

(***************************************************************************)
(* Instances: the values the fields of a Doc can hold                      *)
(***************************************************************************)
\* a Part nested L levels deep through its field via
RECURSIVE PartChain(_, _)
PartChain(via, L) ==
    LET inner == IF L <= 1 THEN Null ELSE PartChain(via, L - 1)
    IN  EmbV("Part",
             << IntV(L),
                IF via = "sub" THEN inner ELSE Null,
                IF via = "subs" /\ L > 1 THEN ListV(<<inner>>) ELSE EmptyList,
                IF via = "kin" /\ L > 1 THEN MapV(<<"k">>, <<inner>>) ELSE EmptyMap >>)

\* a Part whose val was never set
UnsetPart == EmbV("Part", << Null, Null, EmptyList, EmptyMap >>)

MileageV(a, b) == EmbV("Mileage", <<a, b>>)

Vias == {"sub", "subs", "kin"}

\* the values of the field of Doc built from descriptor d
FieldValuesOf(d) ==
    CASE d = "oid" -> {OidV(1), Null}
      [] d = "refDoc" -> {DBRefV("Doc", 1), Stored("Doc", 2), Null}
      [] d = "embPart" ->
            {PartChain(via, L) : via \in Vias, L \in 1..MaxData} \cup {Null, UnsetPart}
      [] d = "listEmbPart" ->
            {ListV(<<PartChain(via, L)>>) : via \in Vias, L \in 1..MaxData}
                \cup {EmptyList, ListV(<<PartChain("sub", 1), Null>>),
                      ListV(<<PartChain("sub", 2), PartChain("sub", 1)>>)}
      [] d = "mapEmbPart" ->
            {MapV(<<"k">>, <<PartChain(via, L)>>) : via \in Vias, L \in 1..MaxData}
                \cup {EmptyMap, MapV(<<"b", "a">>, <<PartChain("sub", 1), Null>>),
                      MapV(<<"b", "a">>, <<PartChain("sub", 1), UnsetPart>>)}
      [] d = "listInt" ->
            {EmptyList, ListV(<<IntV(1)>>), ListV(<<IntV(2), IntV(1)>>),
             ListV(<<IntV(1), IntV(2), IntV(3)>>), ListV(<<IntV(1), Null>>)}
      [] d = "mapInt" ->
            {EmptyMap, MapV(<<"b", "a">>, <<IntV(1), IntV(2)>>),
             MapV(<<"a", "b">>, <<IntV(1), IntV(2)>>), MapV(<<"a">>, <<Null>>)}
      [] d = "listMileage" ->
            {ListV(<<MileageV(IntV(1), IntV(2))>>),
             ListV(<<MileageV(IntV(1), IntV(2)), MileageV(IntV(3), IntV(4))>>),
             ListV(<<MileageV(IntV(1), Null)>>)}
      [] d = "listRefDoc" ->
            {EmptyList, ListV(<<DBRefV("Doc", 1), DBRefV("Doc", 2)>>),
             ListV(<<Stored("Doc", 2)>>), ListV(<<DBRefV("Doc", 1), Null>>)}
      [] d = "dyn" ->
            {PartChain(via, L) : via \in Vias, L \in 1..MaxData}
                \cup {Stored("Doc", 2), DBRefV("Doc", 1), UnsetPart, IntV(7), Null}
      [] d = "dict" ->
            {MapV(<<"e">>, <<SonV("Part", PartChain(via, L).f)>>) :
                 via \in Vias, L \in 1..MaxData}
                \cup {EmptyMap,
                      MapV(<<"r", "i">>, <<DBRefV("Doc", 1), IntV(7)>>),
                      MapV(<<"d">>, <<Stored("Doc", 2)>>),
                      MapV(<<"e">>, <<SonV("Part", UnsetPart.f)>>)}

\* the fields of Doc
DocFields == {Schema("Doc")[i][2] : i \in DOMAIN Schema("Doc")}

\* Meta.depth, or the default
Depths == 0..MaxDepth \cup {MAX_RECURSION_DEPTH}

(***************************************************************************)
(* The field tree's operations                                             *)
(***************************************************************************)
\* The serializer field built from descriptor fld at Meta.depth (get_fields /
\* get_field_kwargs); nothing was asked of it yet
InitTree ==
    /\ \E d \in DocFields, depth \in Depths :
            walk = [op |-> "ready", fld |-> d, depth |-> depth, v |-> Null,
                    out |-> Null, nodes |-> {}, expands |-> {}, nullcalls |-> {},
                    data |-> Null, internal |-> Null, lenient |-> FALSE,
                    calls |-> 0, nested |-> 0]
    /\ sers = <<>> /\ maps = <<>> /\ lookup = <<>>
    /\ res = Idle /\ rep = Idle /\ val = Idle /\ bld = Idle /\ wr = Idle

\* the nested nodes a container node builds in one call: the fields property
\* calls get_fields once and keeps the result
NestedBuiltPerCall(w) ==
    IF Desc(w.fld).k \in {"list", "map"} THEN 1 ELSE 0
NestedBuilt(w) ==
    IF Desc(w.fld).k \in {"list", "map"} /\ w.nested = 0 THEN 1 ELSE 0

\* the serializer represents the field of an instance whose value is v
Represent ==
    /\ walk.calls < MaxCalls
    /\ \E v \in FieldValuesOf(walk.fld) :
          LET r == RepresentField(walk.fld, walk.depth, v)
          IN  walk' = [walk EXCEPT !.op = "represented", !.v = v, !.out = r.out,
                           !.nodes = r.nodes, !.expands = r.expands,
                           !.nullcalls = r.nullcalls,
                           !.data = Null, !.internal = Null, !.lenient = FALSE,
                           !.calls = @ + 1,
                           !.nested = @ + NestedBuilt(walk)]
    /\ UNCHANGED <<sers, maps, lookup, res, rep, val, bld, wr>>

\* field.run_validation(data) on the same node
Validate ==
    /\ walk.calls < MaxCalls
    /\ \E data \in InputsOf(walk.fld), lenient \in BOOLEAN :
          walk' = [walk EXCEPT !.op = "validated", !.data = data,
                       !.lenient = lenient,
                       !.internal = RunValidation(walk.fld, lenient, data),
                       !.v = Null, !.out = Null, !.nodes = {}, !.expands = {},
                       !.nullcalls = {},
                       !.calls = @ + 1,
                       !.nested = @ + (IF data = Null THEN 0 ELSE NestedBuilt(walk))]
    /\ UNCHANGED <<sers, maps, lookup, res, rep, val, bld, wr>>

NextTree == Represent \/ Validate

SpecTree == InitTree /\ [][NextTree]_vars

(***************************************************************************)
(* Claims about the field tree                                             *)
(***************************************************************************)
Max(S) == IF S = {} THEN 0 ELSE CHOOSE m \in S : \A x \in S : x <= m

\* the number of document mappings nested in one another in a value
RECURSIVE Levels(_)
Levels(v) ==
    LET below == Max({Levels(v.f[i]) : i \in DOMAIN v.f})
    IN  IF v.t \in {"omap", "emb", "doc", "son"} THEN 1 + below
        ELSE IF v.t \in {"list", "map"} THEN below
        ELSE 0

\* the fields through which a schema reaches itself again
SelfReferencing == {"refDoc", "listRefDoc", "embPart", "listEmbPart", "mapEmbPart"}

\* does the value hold a reference (whose target references itself, without end)
RECURSIVE HoldsReference(_)
HoldsReference(v) ==
    \/ v.t \in {"dbref", "doc"}
    \/ \E i \in DOMAIN v.f : HoldsReference(v.f[i])

\* the instance goes on below the depth budget
DeeperThan(v, depth) == HoldsReference(v) \/ Levels(v) > depth

\* C3: for every depth d >= 1, walking the field tree of a self-referencing
\* schema over an instance that goes deeper than d ends with a result, and
\* the deepest nesting in the result is d.
C3_SelfReferenceNestsToDepth ==
    (/\ walk.op = "represented"
     /\ walk.fld \in SelfReferencing
     /\ walk.depth >= 1
     /\ DeeperThan(walk.v, walk.depth))
        => ~IsRaise(walk.out) /\ Levels(walk.out) = walk.depth

\* C4: the depth budget of every node is its parent's minus 1 and never
\* negative, and a node whose budget is 0 or less expands nothing.
C4_DepthBudgetNeverNegative ==
    walk.op = "represented" =>
        /\ \A n \in walk.nodes : n.depth = n.pdepth - 1 /\ n.depth >= 0
        /\ \A e \in walk.expands : e.depth > 0

\* the value is a document: a reference, a document, an embedded document
IsDocumentValue(v) == v.t \in {"dbref", "doc", "emb", "son"}
\* the text of the primary key n
IsIdentityText(o, n) == o = StrV(n)

C7_NoChildCalledWithNull ==
    walk.op = "represented" => walk.nullcalls = {}

\* the list and map fields of Doc
ContainerFields == {d \in DocFields : Desc(d).k \in {"list", "map"}}

\* C8: a list or map node builds one nested node and uses it for every
\* element and in every call: the representation of a list of n elements is
\* the list of the nested field's representations in the same order, that of
\* a map keeps the keys in their order, and to_internal_value returns the
\* nested field's validated value of every element in the same order (the
\* input [{"loaded": 1, "unloaded": 2}] becomes one Mileage(1, 2)); the call
\* raises exactly when the nested field raises on one of the elements.
C8_OneNestedFieldForEveryElement ==
    walk.fld \in ContainerFields =>
        LET kind == Desc(walk.fld).k
            elem == Desc(walk.fld).elem
        IN  /\ walk.nested <= 1
            /\ (walk.op = "represented" \/ (walk.op = "validated" /\ walk.data # Null))
                   => walk.nested = 1
            /\ (walk.op = "represented" /\ walk.v # Null) =>
                   IsRaise(walk.out) <=>
                       \E i \in DOMAIN walk.v.f :
                           IsRaise(ToRepresentation(elem, ChildDepth(elem, walk.depth),
                                                    walk.v.f[i]).out)
            /\ (walk.op = "validated" /\ walk.data.t = kind) =>
                   IsRaise(walk.internal) <=>
                       \E i \in DOMAIN walk.data.f :
                           IsRaise(RunValidation(elem, walk.lenient, walk.data.f[i]))
            /\ (walk.op = "represented" /\ walk.v # Null /\ ~IsRaise(walk.out)) =>
                   /\ walk.out.t = kind
                   /\ Len(walk.out.f) = Len(walk.v.f)
                   /\ walk.out.ks = walk.v.ks
                   /\ \A i \in DOMAIN walk.v.f :
                          walk.out.f[i] =
                              ToRepresentation(elem, ChildDepth(elem, walk.depth),
                                               walk.v.f[i]).out
            /\ (walk.op = "validated" /\ walk.data.t = kind /\ ~IsRaise(walk.internal)) =>
                   /\ walk.internal.t = kind
                   /\ Len(walk.internal.f) = Len(walk.data.f)
                   /\ walk.internal.ks = walk.data.ks
                   /\ \A i \in DOMAIN walk.data.f :
                          walk.internal.f[i] =
                              RunValidation(elem, walk.lenient, walk.data.f[i])
            /\ (walk.op = "validated" /\ walk.fld = "listMileage"
                    /\ walk.data = ListV(<<MileageJson(IntV(1), IntV(2))>>))
                   => walk.internal = ListV(<<MileageV(IntV(1), IntV(2))>>)

\* the second call on a list node validated two elements that the nested
\* field converted
C8_Witness ==
    /\ walk.op = "validated"
    /\ walk.fld = "listMileage"
    /\ walk.calls = 2
    /\ walk.nested = 1
    /\ Len(walk.data.f) = 2
    /\ walk.internal = ListV(<<MileageV(IntV(3), IntV(4)), MileageV(IntV(1), IntV(2))>>)

(***************************************************************************)
(* The serializers' to_representation of serializers.py                    *)
(***************************************************************************)
\* the fields of a serializer besides the dynamic ones
MaxFields == 2

\* the names the serializer's fields are bound to; the first is the identity
SerFieldNames == <<"id", "name", "wheels", "owner">>
\* the name of the instance's dynamic attribute
DynamicName == "extra"

\* SkipField, raised by field.get_attribute
SkipField == Raise("SkipField")

\* One bound field and what the instance gives it:
\*   wo        field.write_only
\*   declared  field_name in self._declared_fields
\*   inFields  field.source in instance._fields
\*   attr      the outcome of field.get_attribute(instance): None, a value or
\*             SkipField; the attribute of a model field of the instance is
\*             always there
SerField(i) ==
    {[name |-> SerFieldNames[i], d |-> IF i = 1 THEN "oid" ELSE "int",
      wo |-> wo, declared |-> dc, inFields |-> inf, attr |-> a] :
        wo \in BOOLEAN, dc \in BOOLEAN,
        inf \in BOOLEAN,
        a \in {Null, IF i = 1 THEN OidV(1) ELSE IntV(i), SkipField}}

RECURSIVE SerFieldLists(_)
SerFieldLists(n) ==
    IF n = 0 THEN {<<>>}
    ELSE {Append(l, f) : l \in SerFieldLists(n - 1),
                         f \in {x \in SerField(n) : x.inFields => x.attr # SkipField}}

\* _get_dynamic_fields(instance): a DynamicField per dynamic attribute
DynamicFieldsOf(dyn) ==
    [i \in DOMAIN dyn |->
        [name |-> DynamicName, d |-> "dyn", wo |-> FALSE, declared |-> FALSE,
         inFields |-> FALSE, attr |-> dyn[i]]]

\* ret[field_name] = value
SetEntry(ret, name, value) == {e \in ret : e[1] # name} \cup {<<name, value>>}

\* "if attribute is None"
AttributeIsNoneNever(a) == FALSE
AttributeIsNone(a) == a = Null

\* PolymorphicDocumentSerializer.to_representation asks a field only
\* "if field_name in self._declared_fields or field.source in instance._fields"
Consults(kind, f) == kind = "polymorphic" => (f.declared \/ f.inFields)

\* DocumentSerializer and PolymorphicDocumentSerializer catch SkipField
CatchesSkipField(kind) == kind # "dynamic"

\* field.to_representation(attribute) of a bound field: an identity or int
\* field, or a DynamicField holding a plain value ("some other type of value")
FieldToRepresentation(f) ==
    IF f.d = "dyn" THEN f.attr ELSE LeafToRepresentation(Desc(f.d).k, f.attr)

\* one pass of the loop over the fields of the three to_representation methods
FacadeStep(kind, f, acc) ==
    IF f.wo \/ ~Consults(kind, f) THEN acc
    ELSE IF f.attr = SkipField
        THEN IF CatchesSkipField(kind) THEN acc ELSE [acc EXCEPT !.raised = SkipField]
    ELSE IF AttributeIsNone(f.attr)
        THEN [acc EXCEPT !.ret = SetEntry(@, f.name, Null)]
    ELSE LET r == FieldToRepresentation(f)
         IN  IF IsRaise(r)
                 THEN [acc EXCEPT !.raised = r, !.called = @ \cup {f.name}]
                 ELSE [acc EXCEPT !.ret = SetEntry(@, f.name, r),
                                  !.called = @ \cup {f.name}]

RECURSIVE Facade(_, _, _, _)
Facade(kind, items, i, acc) ==
    IF i > Len(items) \/ acc.raised # Null THEN acc
    ELSE Facade(kind, items, i + 1, FacadeStep(kind, items[i], acc))

SerializerToRepresentation(kind, flds, dyn) ==
    Facade(kind, IF kind = "dynamic" THEN flds \o DynamicFieldsOf(dyn) ELSE flds, 1,
           [ret |-> {}, called |-> {}, raised |-> Null])

InitSer ==
    /\ rep = [op |-> "ready", flds |-> <<>>, dyn |-> <<>>, ret |-> {}, called |-> {},
              raised |-> Null]
    /\ sers = <<>> /\ maps = <<>> /\ lookup = <<>>
    /\ res = Idle /\ walk = Idle /\ val = Idle /\ bld = Idle /\ wr = Idle

\* the state after to_representation of a serializer of the kind returned
Serialized(kind, flds, dyn) ==
    LET r == SerializerToRepresentation(kind, flds, dyn)
    IN  [op |-> kind, flds |-> flds, dyn |-> dyn, ret |-> r.ret,
         called |-> r.called, raised |-> r.raised]

\* DocumentSerializer.to_representation(instance)
DocumentToRepresentation ==
    /\ rep.op = "ready"
    /\ \E flds \in SerFieldLists(MaxFields) :
           rep' = Serialized("document", flds, <<>>)
    /\ UNCHANGED <<sers, maps, lookup, res, walk, val, bld, wr>>

\* PolymorphicDocumentSerializer.to_representation(instance)
PolymorphicToRepresentation ==
    /\ rep.op = "ready"
    /\ \E flds \in SerFieldLists(MaxFields) :
           rep' = Serialized("polymorphic", flds, <<>>)
    /\ UNCHANGED <<sers, maps, lookup, res, walk, val, bld, wr>>

\* DynamicDocumentSerializer.to_representation(instance)
DynamicToRepresentation ==
    /\ rep.op = "ready"
    /\ \E flds \in SerFieldLists(MaxFields), dyn \in {<<>>, <<Null>>, <<IntV(7)>>} :
           rep' = Serialized("dynamic", flds, dyn)
    /\ UNCHANGED <<sers, maps, lookup, res, walk, val, bld, wr>>

NextSer ==
    \/ DocumentToRepresentation
    \/ PolymorphicToRepresentation
    \/ DynamicToRepresentation

SpecSer == InitSer /\ [][NextSer]_vars

\* the fields of the finished call, the dynamic ones included
RepFields == rep.flds \o (IF rep.op = "dynamic" THEN DynamicFieldsOf(rep.dyn) ELSE <<>>)
\* the entries of the result under a name
EntriesOf(name) == {e \in rep.ret : e[1] = name}
\* the entry a field that gave an attribute has to contribute
EntryOf(f) ==
    IF f.attr = Null THEN <<f.name, Null>>
    ELSE <<f.name, FieldToRepresentation(f)>>
Returned == rep.op \in {"document", "polymorphic", "dynamic"} /\ rep.raised = Null

Asked(kind) ==
    {i \in DOMAIN RepFields :
        /\ ~RepFields[i].wo
        /\ kind = "polymorphic" => (RepFields[i].declared \/ RepFields[i].inFields)}

ValidatedFields ==
    << <<"id", "oid">>, <<"friend", "refDoc">>, <<"nums", "listInt">>,
       <<"imap", "mapInt">> >>

\* Serializer.to_internal_value: every field's run_validation in order; a
\* ValidationError goes into errors under the field's name, any other
\* exception leaves the call
RECURSIVE RunFields(_, _, _, _)
RunFields(data, lenient, i, acc) ==
    IF i > Len(ValidatedFields) \/ acc.fatal # Null THEN acc
    ELSE LET name == ValidatedFields[i][1]
             r    == RunValidation(ValidatedFields[i][2], lenient, data[i])
         IN  IF IsValidationError(r)
                 THEN RunFields(data, lenient, i + 1,
                                [acc EXCEPT !.errors = @ \cup {<<name, r.ks[1]>>}])
             ELSE IF IsRaise(r) THEN [acc EXCEPT !.fatal = r]
             ELSE RunFields(data, lenient, i + 1,
                            [acc EXCEPT !.validated = @ \cup {<<name, r>>}])

\* the declared EmbeddedDocumentSerializer fields of a serializer
MaxEmbedded == 1
EmbeddedNames == <<"mileage", "spare", "trailer">>
\*   required  the sub-serializer's required flag
\*   ok        the input under its name passes its validation
EmbeddedSerializers ==
    UNION {[1..n -> [required : BOOLEAN, ok : BOOLEAN]] : n \in 1..MaxEmbedded}

\* serializers.empty
Empty == Value("empty", 0, "", <<>>, <<>>)

\* Which attribute is_valid of the installed rest_framework reads its input
\* from: the parent stores the sub-serializer's data in _initial_data
Releases == {"_initial_data", "initial_data"}

\* embedded_field.is_valid(raise_exception) after
\* embedded_field._initial_data = data. A release that reads initial_data
\* finds no data on the declared field and refuses with an AssertionError;
\* one that reads _initial_data validates it: empty is the required error of
\* a required field, SkipField of an optional one
EmbeddedIsValid(release, e, data, raiseException) ==
    IF release = "initial_data"
        THEN RaiseWith("AssertionError", "no data= keyword argument")
    ELSE IF data = Empty
        THEN IF ~e.required THEN SkipField
             ELSE IF raiseException THEN RaiseWith("ValidationError", "required")
             ELSE BoolV(FALSE)
    ELSE BoolV(TRUE)

\* "for embedded_field in self.embedded_document_serializer_fields":
\* self.validated_data is empty when the parent's own validation failed
RECURSIVE EmbeddedLoop(_, _, _, _, _, _)
EmbeddedLoop(release, embs, i, parentValid, raiseException, acc) ==
    IF i > Len(embs) \/ acc.raised # Null THEN acc
    ELSE LET data == IF parentValid THEN Value("validated", i, "", <<>>, <<>>) ELSE Empty
             r    == EmbeddedIsValid(release, embs[i], data, raiseException)
         IN  EmbeddedLoop(release, embs, i + 1, parentValid, raiseException,
                 IF IsRaise(r) THEN [acc EXCEPT !.raised = r]
                 ELSE [acc EXCEPT !.valid = @ /\ r = BoolV(TRUE)])

\* the end of is_valid: r is what the parent's fields gave, errors the
\* parent's error mapping, loop the outcome of the embedded sub-serializers
Conclude(r, errors, loop, raiseException) ==
    IF r.fatal # Null
        THEN [outcome |-> "fatal", errors |-> {}, validated |-> {},
              raised |-> r.fatal, collected |-> errors, fieldFatal |-> TRUE]
    ELSE IF errors # {} /\ raiseException
        THEN [outcome |-> "raised", errors |-> errors, validated |-> {},
              raised |-> RaiseWith("ValidationError", "errors"),
              collected |-> errors, fieldFatal |-> FALSE]
    ELSE IF loop.raised # Null
        THEN [outcome |-> "fatal", errors |-> errors, validated |-> {},
              raised |-> loop.raised, collected |-> errors, fieldFatal |-> FALSE]
    ELSE [outcome |-> IF loop.valid THEN "valid" ELSE "invalid",
          errors |-> errors,
          validated |-> IF errors = {} THEN r.validated ELSE {},
          raised |-> Null, collected |-> errors, fieldFatal |-> FALSE]

\* valid = super().is_valid(...), then the embedded sub-serializers
AfterSuper(r, errors, embs, raiseException, release) ==
    Conclude(r, errors,
             EmbeddedLoop(release, embs, 1, errors = {}, raiseException,
                          [valid |-> errors = {}, raised |-> Null]),
             raiseException)

\* super().is_valid validates the declared sub-serializers as fields of the
\* parent too
AfterFields(r, embs, raiseException, release) ==
    AfterSuper(r,
               r.errors \cup
                   {<<EmbeddedNames[i], "invalid">> : i \in {j \in DOMAIN embs : ~embs[j].ok}},
               embs, raiseException, release)

\* DocumentSerializer.is_valid(raise_exception) of a serializer that declares
\* the EmbeddedDocumentSerializer fields embs
IsValidOutcome(data, embs, raiseException, lenient, release) ==
    AfterFields(RunFields(data, lenient, 1,
                          [errors |-> {}, validated |-> {}, fatal |-> Null]),
                embs, raiseException, release)

InitValid ==
    /\ val = [op |-> "ready", data |-> <<>>, embs |-> <<>>, raiseException |-> FALSE,
              lenient |-> FALSE, release |-> "", outcome |-> "", errors |-> {},
              validated |-> {}, raised |-> Null, collected |-> {},
              fieldFatal |-> FALSE]
    /\ sers = <<>> /\ maps = <<>> /\ lookup = <<>>
    /\ res = Idle /\ walk = Idle /\ rep = Idle /\ bld = Idle /\ wr = Idle

\* the state after is_valid
Validated(data, embs, raiseException, lenient, release) ==
    [op |-> "validated", data |-> data, embs |-> embs,
     raiseException |-> raiseException, lenient |-> lenient, release |-> release]
        @@ IsValidOutcome(data, embs, raiseException, lenient, release)

\* serializer = Serializer(data=data); serializer.is_valid(raise_exception)
IsValid ==
    /\ val.op = "ready"
    /\ \E id \in InputsOf("oid"), friend \in InputsOf("refDoc"),
          nums \in InputsOf("listInt"), imap \in InputsOf("mapInt"),
          raiseException \in BOOLEAN, lenient \in BOOLEAN :
           val' = Validated(<<id, friend, nums, imap>>, <<>>, raiseException, lenient,
                            "_initial_data")
    /\ UNCHANGED <<sers, maps, lookup, res, walk, rep, bld, wr>>

\* is_valid of a serializer that declares EmbeddedDocumentSerializer fields
IsValidWithEmbedded ==
    /\ val.op = "ready"
    /\ \E id \in {StrV(1), Null}, embs \in EmbeddedSerializers,
          raiseException \in BOOLEAN, release \in Releases :
           val' = Validated(<<id, StrV(1), EmptyList, EmptyMap>>, embs, raiseException,
                            FALSE, release)
    /\ UNCHANGED <<sers, maps, lookup, res, walk, rep, bld, wr>>

NextValid == IsValid \/ IsValidWithEmbedded

SpecValid == InitValid /\ [][NextValid]_vars

\* C10: is_valid(raise_exception=False) with a malformed identity (a text
\* that is no identity) for the object-id field or the reference field ends
\* invalid with an error entry under that field's name, and no exception
\* leaves the call.
C10_MalformedIdentityIsFieldError ==
    (val.op = "validated" /\ ~val.raiseException) =>
        \A i \in {1, 2} :
            val.data[i] = BadStr =>
                /\ val.outcome = "invalid"
                /\ \E e \in val.errors : e[1] = ValidatedFields[i][1]

\* the other fields got input they accept
WellFormedBut(S) ==
    /\ 1 \in S \/ val.data[1] = StrV(1)
    /\ 2 \in S \/ val.data[2] = StrV(1)
    /\ 3 \in S \/ val.data[3] = EmptyList
    /\ 4 \in S \/ val.data[4] = EmptyMap
\* the call ended with a collected error under the name of field i
FieldErrorFor(i) ==
    /\ val.outcome \in {"invalid", "raised"}
    /\ \E e \in val.errors : e[1] = ValidatedFields[i][1]

\* C11: input that is not list-shaped for the list field, or not
\* mapping-shaped for the map field, ends is_valid with a validation error
\* collected under that field's name: the input is not accepted and no other
\* exception leaves the call.
C11_NotAListIsFieldError ==
    val.op = "validated" =>
        /\ (WellFormedBut({3}) /\ val.data[3] # Null /\ val.data[3].t # "list")
               => FieldErrorFor(3)
        /\ (WellFormedBut({4}) /\ val.data[4] # Null /\ val.data[4].t # "map")
               => FieldErrorFor(4)

\* C12: a well-formed identity of a document that does not exist, given to
\* the reference field, ends is_valid with a validation error collected under
\* that field's name, and no reference to the missing target is returned.
C12_MissingTargetIsFieldError ==
    (val.op = "validated" /\ WellFormedBut({2})) =>
        \A n \in {1, 2} \ StoredIds :
            val.data[2] = StrV(n) =>
                /\ FieldErrorFor(2)
                /\ <<"friend", DBRefV("Doc", n)>> \notin val.validated

\* C13: on input, a reference, embedded-document or dynamic node with depth
\* budget 0 that is given a mapping describing a full object fails with an
\* exception for that entry; it does not accept and rebuild the object.
C13_DepthExhaustedOnInput ==
    (/\ walk.op = "validated"
     /\ walk.depth = 0
     /\ Desc(walk.fld).k \in {"ref", "emb", "dyn"}
     /\ walk.data.t \in {"omap", "map"})
        => IsRaise(walk.internal)

(***************************************************************************)
(* Building field nodes: get_field_mapping, get_field_kwargs               *)
(***************************************************************************)
\* The classes of model fields and their base class
NoBase == "object"
FieldClasses ==
    {"BaseField", "StringField", "EmailField", "IntField", "ObjectIdField",
     "ComplexBaseField", "ListField", "SortedListField", "DictField", "MapField",
     "EmbeddedDocumentField", "GenericReferenceField", "SequenceField"}
FieldBase(c) ==
    CASE c = "BaseField" -> NoBase
      [] c \in {"StringField", "IntField", "ObjectIdField", "ComplexBaseField",
                "EmbeddedDocumentField", "GenericReferenceField",
                "SequenceField"} -> "BaseField"
      [] c = "EmailField" -> "StringField"
      [] c \in {"ListField", "DictField"} -> "ComplexBaseField"
      [] c = "SortedListField" -> "ListField"
      [] c = "MapField" -> "DictField"

\* inspect.getmro(field): the class, then its bases
RECURSIVE Mro(_)
Mro(c) == IF c = NoBase THEN <<>> ELSE <<c>> \o Mro(FieldBase(c))

\* DocumentSerializer._drfme_field_mapping and field_mapping
DrfmeFieldMapping ==
    [ObjectIdField |-> "ObjectIdField", ListField |-> "ListField",
     EmbeddedDocumentField |-> "EmbeddedDocumentField", DictField |-> "DictField",
     MapField |-> "MapField"]
FieldMapping ==
    [IntField |-> "IntegerField", EmailField |-> "EmailField",
     StringField |-> "CharField"] @@ DrfmeFieldMapping

NoMapping == "None"
\* get_field_mapping: the entry of the first class of the mro that has one
FirstMapped(classes) ==
    LET hits == {i \in DOMAIN classes : classes[i] \in DOMAIN FieldMapping}
    IN  IF hits = {} THEN NoMapping
        ELSE FieldMapping[classes[CHOOSE i \in hits : \A j \in hits : i <= j]]
GetFieldMapping(c) == FirstMapped(Mro(c))

\* is_drfme_field: the class or one of its bases is in _drfme_field_mapping
IsDrfmeField(c) == \E i \in DOMAIN Mro(c) : Mro(c)[i] \in DOMAIN DrfmeFieldMapping

\* default values of a descriptor; None stands for "no default"
Defaults == {Null, IntV(0), IntV(5), TextV(""), BoolV(FALSE), BoolV(TRUE)}
\* the truth value of "if model_field.default:"
Truthy(v) ==
    CASE v.t = "int" -> v.n # 0
      [] v.t = "bool" -> v.n = 1
      [] v.t = "text" -> v.cls # ""
      [] OTHER -> FALSE

\* attribute_dict: the attributes copied for the exact class
AttributeDict(c) ==
    IF c \in {"StringField", "EmailField"} THEN {"max_length"} ELSE {}

\* the kwargs common to get_field_kwargs and get_subfield_kwargs; depth is
\* the budget a drfme node gets
CommonKwargs(f, depth) ==
    [drfme    |-> IsDrfmeField(f.cls),
     depth    |-> IF IsDrfmeField(f.cls) THEN depth ELSE 0,
     required |-> IF Truthy(f.default) THEN FALSE
                  ELSE IF f.cls = "ObjectIdField" THEN FALSE ELSE f.required,
     default  |-> IF Truthy(f.default) THEN f.default ELSE Null,
     attributes |-> AttributeDict(f.cls)]

\* DocumentSerializer.get_field_kwargs, with Meta.depth
GetFieldKwargs(f, depth) ==
    LET kw == CommonKwargs(f, depth)
    IN  [kw |-> kw,
         allowNull |-> f.cls = "StringField" /\ ~kw.required]

\* DocumentField.get_subfield_kwargs of a node with the given depth
GetSubfieldKwargs(f, depth) ==
    [kw |-> CommonKwargs(f, depth - 1), allowNull |-> FALSE]

\* calling what get_field_mapping returned
Construct(ctor, kwargs) ==
    IF ctor = NoMapping THEN RaiseWith("TypeError", "NoneType is not callable")
    ELSE Value("node", 0, ctor, <<kwargs>>, <<>>)

\* One field node built from the descriptor f:
\*   serializer  DocumentSerializer.get_fields, "Create regular model fields"
\*   subfield    DocumentField.get_subfield
\*   delta       PolymorphicChainMap.__getitem__, the next tier
BuildNode(place, f, depth) ==
    CASE place = "serializer" ->
            IF GetFieldMapping(f.cls) = NoMapping
                THEN RaiseWith("KeyError", "is not supported, yet")
                ELSE Construct(GetFieldMapping(f.cls), GetFieldKwargs(f, depth))
      [] place = "subfield" ->
            Construct(GetFieldMapping(f.cls), GetSubfieldKwargs(f, depth))
      [] place = "delta" ->
            Construct(GetFieldMapping(f.cls), GetFieldKwargs(f, depth))

\* the model field descriptors a schema can declare
Descriptors ==
    {[cls |-> c, required |-> r, default |-> d] :
        c \in FieldClasses \ {"BaseField", "ComplexBaseField"},
        r \in BOOLEAN, d \in Defaults}

InitBuild ==
    /\ bld = [op |-> "ready"]
    /\ sers = <<>> /\ maps = <<>> /\ lookup = <<>>
    /\ res = Idle /\ walk = Idle /\ rep = Idle /\ val = Idle /\ wr = Idle

\* a field node is built for a descriptor met at one of the three places
BuildField ==
    /\ bld.op = "ready"
    /\ \E place \in {"serializer", "subfield", "delta"}, f \in Descriptors,
          depth \in {0, MAX_RECURSION_DEPTH} :
           bld' = [op |-> "field", place |-> place, f |-> f, depth |-> depth,
                   out |-> BuildNode(place, f, depth)]
    /\ UNCHANGED <<sers, maps, lookup, res, walk, rep, val, wr>>

(***************************************************************************)
(* Building the field set: get_field_info, get_fields                      *)
(***************************************************************************)
\* the largest number of fields a schema declares besides the identity
MaxSchema == 2

\* the names a schema can declare, and the model field behind each name
SchemaNames == {"name", "weight", "manufacturer", "mpg"}
ModelField(name) ==
    [cls |-> CASE name = "id" -> "ObjectIdField"
               [] name \in {"name", "manufacturer"} -> "StringField"
               [] OTHER -> "IntField",
     required |-> FALSE, default |-> Null]

\* the declarations of n fields, in every order
RECURSIVE Declarations(_)
Declarations(n) ==
    IF n = 0 THEN {<<>>}
    ELSE Declarations(n - 1) \cup
         {Append(d, x) : d \in {y \in Declarations(n - 1) : Len(y) = n - 1},
                         x \in SchemaNames}
Distinct(seq) == \A i, j \in DOMAIN seq : seq[i] = seq[j] => i = j

\* model._fields_ordered: a Document has the identity before its declared
\* fields, an EmbeddedDocument has none
Models ==
    {[embedded |-> e, ordered |-> IF e THEN d ELSE <<"id">> \o d] :
        e \in BOOLEAN, d \in {x \in Declarations(MaxSchema) : Distinct(x)}}

\* OrderedDict: a sequence of <<key, value>>; d[key] = value keeps the place
\* of a key that is there
Keys(od) == [i \in DOMAIN od |-> od[i][1]]
OdSet(od, key, value) ==
    IF \E i \in DOMAIN od : od[i][1] = key
        THEN [i \in DOMAIN od |-> IF od[i][1] = key THEN <<key, value>> ELSE od[i]]
        ELSE Append(od, <<key, value>>)
RECURSIVE OdUpdate(_, _)
OdUpdate(od, items) ==
    IF items = <<>> THEN od
    ELSE OdUpdate(OdSet(od, Head(items)[1], Head(items)[2]), Tail(items))

None == "None"
\* utils.get_field_info: a model field stands for itself by its name
GetFieldInfoReversed(model) ==
    LET n == Len(model.ordered)
    IN  [pk |-> IF model.embedded THEN None ELSE "id",
         fields |-> [i \in 1..n |-> <<model.ordered[n + 1 - i], model.ordered[n + 1 - i]>>],
         fields_and_pk |-> <<>>]
GetFieldInfo(model) ==
    LET pk     == IF model.embedded THEN None ELSE "id"
        fields == [i \in DOMAIN model.ordered |-> <<model.ordered[i], model.ordered[i]>>]
        pkName == IF pk = None THEN "pk" ELSE pk
    IN  [pk |-> pk,
         fields |-> fields,
         fields_and_pk |-> OdUpdate(OdSet(OdSet(<<>>, "pk", pk), pkName, pk), fields)]

\* get_default_field_names of a model with an identity: the identity's name,
\* the declared serializer fields, the model fields
GetDefaultFieldNames(declared, info) ==
    <<info.pk>> \o declared \o Keys(info.fields)

\* both Meta.fields and Meta.exclude are set: "fields and exclude"
BothSet(metaFields, metaExclude) ==
    /\ metaFields # None /\ metaFields # <<>>
    /\ metaExclude # None /\ metaExclude # <<>>

\* the loop "Now determine the fields that should be included"
RECURSIVE IncludeFields(_, _, _, _, _)
IncludeFields(names, declared, info, depth, ret) ==
    IF names = <<>> \/ ret.raised # Null THEN ret
    ELSE LET name == Head(names)
             node == IF \E i \in DOMAIN declared : declared[i] = name
                         THEN Value("node", 0, "declared", <<>>, <<>>)
                     ELSE IF \E i \in DOMAIN info.fields_and_pk :
                                 info.fields_and_pk[i][1] = name
                         THEN BuildNode("serializer", ModelField(name), depth)
                     \* every name is declared or a model field: the branches
                     \* for model attributes and for unknown names are not taken
                     ELSE RaiseWith("ImproperlyConfigured", "is not valid for model")
         IN  IncludeFields(Tail(names), declared, info, depth,
                 IF IsRaise(node) THEN [ret EXCEPT !.raised = node]
                 ELSE [ret EXCEPT !.fields = OdSet(@, name, node)])

\* DocumentSerializer.get_fields of a serializer over a Document model,
\* without Meta.extra_kwargs
GetFieldsOf(model, metaFields, metaExclude, declared, depth) ==
    IF BothSet(metaFields, metaExclude)
        THEN [fields |-> <<>>,
              raised |-> RaiseWith("AssertionError", "Cannot set both 'fields' and 'exclude'.")]
    ELSE LET info == GetFieldInfo(model)
         IN  IncludeFields(GetDefaultFieldNames(declared, info), declared, info, depth,
                           [fields |-> <<>>, raised |-> Null])

\* info = get_field_info(model)
CallGetFieldInfo ==
    /\ bld.op = "ready"
    /\ \E model \in Models :
           bld' = [op |-> "info", model |-> model, info |-> GetFieldInfo(model)]
    /\ UNCHANGED <<sers, maps, lookup, res, walk, rep, val, wr>>

\* the values of Meta.fields / Meta.exclude, and the fields declared on the
\* serializer class
MetaLists == {None, <<>>, <<"name">>, <<"id", "weight">>}
DeclaredLists == {<<>>, <<"name">>, <<"extra">>, <<"extra", "weight">>}

\* serializer.fields of a serializer over a Document model
GetFields ==
    /\ bld.op = "ready"
    /\ \E model \in {m \in Models : ~m.embedded},
          metaFields \in MetaLists, metaExclude \in MetaLists \ {<<"id", "weight">>},
          declared \in DeclaredLists :
           LET r == GetFieldsOf(model, metaFields, metaExclude, declared,
                                MAX_RECURSION_DEPTH)
           IN  bld' = [op |-> "fields", model |-> model, metaFields |-> metaFields,
                       metaExclude |-> metaExclude, declared |-> declared,
                       fields |-> r.fields, raised |-> r.raised]
    /\ UNCHANGED <<sers, maps, lookup, res, walk, rep, val, wr>>

NextBuild == BuildField \/ CallGetFieldInfo \/ GetFields

SpecBuild == InitBuild /\ [][NextBuild]_vars

\* the class nearest to c on its chain of bases that the table holds
RECURSIVE NearestMapped(_)
NearestMapped(c) ==
    IF c = NoBase THEN NoMapping
    ELSE IF c \in DOMAIN FieldMapping THEN FieldMapping[c]
    ELSE NearestMapped(FieldBase(c))

\* C14: a descriptor's class resolves to the constructor of the nearest class
\* of its chain of bases that the table holds; when the table holds none,
\* building the node raises the unsupported-field error at each place the
\* class can occur (serializer field, nested subfield, chain-map tier), and no
\* node is built.
C14_UnsupportedKindIsSignalled ==
    bld.op = "field" =>
        IF NearestMapped(bld.f.cls) = NoMapping
            THEN bld.out = RaiseWith("KeyError", "is not supported, yet")
            ELSE bld.out.t = "node" /\ bld.out.cls = NearestMapped(bld.f.cls)

\* C16: the built node has required = (the descriptor has no default and is
\* no object-id), and a descriptor with a default, whatever its value, gives
\* default = descriptor.default and required = false, for serializer fields
\* and nested subfields alike.
C16_RequiredAndDefault ==
    (bld.op = "field" /\ bld.out.t = "node") =>
        LET kw == bld.out.f[1].kw
        IN  /\ kw.required = (bld.f.default = Null /\ bld.f.cls # "ObjectIdField")
            /\ bld.f.default # Null => (kw.default = bld.f.default /\ ~kw.required)

\* the first occurrences of a sequence's elements
RECURSIVE FirstOccurrences(_)
FirstOccurrences(seq) ==
    IF seq = <<>> THEN <<>>
    ELSE LET init == FirstOccurrences(SubSeq(seq, 1, Len(seq) - 1))
             last == seq[Len(seq)]
         IN  IF \E i \in DOMAIN init : init[i] = last THEN init ELSE Append(init, last)
IdentityKeys == {"id", "pk"}

C17_MetaFieldsAndExclude ==
    bld.op = "fields" =>
        LET listed(l, x) == \E i \in DOMAIN l : l[i] = x
            names == {bld.fields[i][1] : i \in DOMAIN bld.fields}
            allow == bld.metaFields # None /\ bld.metaFields # <<>>
            deny  == bld.metaExclude # None /\ bld.metaExclude # <<>>
            undeclared == allow /\ \E i \in DOMAIN bld.declared :
                                       ~listed(bld.metaFields, bld.declared[i])
        IN  /\ (allow /\ deny) => IsRaise(bld.raised)
            /\ undeclared => IsRaise(bld.raised)
            /\ (allow /\ ~deny /\ ~undeclared) =>
                   /\ bld.raised = Null
                   /\ names = {bld.metaFields[i] : i \in DOMAIN bld.metaFields}
            /\ (deny /\ ~allow) =>
                   /\ bld.raised = Null
                   /\ \A i \in DOMAIN bld.metaExclude : bld.metaExclude[i] \notin names

\* C20: on invalid input is_valid(raise_exception=True) raises one
\* ValidationError that carries the whole field-keyed error mapping, the
\* errors of the declared embedded sub-serializers included;
\* is_valid(raise_exception=False) returns false, raises nothing and leaves
\* that mapping on the serializer.
C20_RaiseOrReturnFalse ==
    (val.op = "validated" /\ val.collected # {} /\ ~val.fieldFatal) =>
        /\ val.errors = val.collected
        /\ IF val.raiseException
               THEN val.outcome = "raised" /\ IsValidationError(val.raised)
               ELSE val.outcome = "invalid" /\ val.raised = Null

\* ---------------------------------------------------------------------------
\* create and update
\*
\* wr follows one call of create(validated_data) or update(instance,
\* validated_data) step by step.  Its fields:
\*   method    "create" or "update"
\*   cls       "Document" (DocumentSerializer) or "Embedded"
\*             (EmbeddedDocumentSerializer)
\*   embs      the declared EmbeddedDocumentSerializer fields, each with
\*               bad       its own validated data holds a rejected key
\*               existing  the instance being updated has the embedded document
\*   data      the keys of validated_data as passed in
\*   validated the keys of validated_data now
\*   phase     position in Steps(cls, method)
\*   i         the embedded field the loop is at
\*   pending   the sub-serializer returned, its result is not placed yet
\*   events    what has been done to instances so far, in order
\*   outcome   Null while running, then the instance or the exception
\*   failure   what the model's constructor or save raised, "" if nothing
\*   instance  the fields of the instance that is returned
\* ---------------------------------------------------------------------------

WField(name, source, kind) == [name |-> name, source |-> source, kind |-> kind]

\* serializer.fields: a plain field, a field whose source is 'owner.city', a
\* nested serializer that is not an EmbeddedDocumentSerializer, and the
\* declared embedded sub-serializers; source is kept as its dot-separated parts
WriteFields(embs) ==
    {WField("name", <<"name">>, "field"),
     WField("city", <<"owner", "city">>, "field"),
     WField("garage", <<"garage">>, "serializer")}
        \cup {WField(EmbeddedNames[i], <<EmbeddedNames[i]>>, "embedded") : i \in DOMAIN embs}

WriteKeys(embs) == {f.name : f \in WriteFields(embs)}

WriteEmbedded == UNION {[1..n -> [bad : BOOLEAN, existing : BOOLEAN]] : n \in 0..MaxEmbedded}

AssertionError(key) == RaiseWith("AssertionError", key)

\* raise_errors_on_nested_writes of this package: the two assertions
RaiseErrorsOnNestedWrites(fields, keys) ==
    IF \E f \in fields : f.kind = "serializer" /\ f.name \in keys
        THEN AssertionError("nested")
    ELSE IF \E f \in fields : Len(f.source) > 1 /\ f.name \in keys
        THEN AssertionError("dotted")
    ELSE Null

\* the function of the same name that ModelSerializer.update calls: it knows
\* no EmbeddedDocumentSerializer, every serializer field is a nested write
ModelSerializerRaiseErrors(fields, keys) ==
    IF \E f \in fields : f.kind \in {"serializer", "embedded"} /\ f.name \in keys
        THEN AssertionError("nested")
    ELSE IF \E f \in fields : Len(f.source) > 1 /\ f.name \in keys
        THEN AssertionError("dotted")
    ELSE Null

StepsSaveFirst(cls, method) ==
    IF cls = "Embedded" THEN <<"check", "build">>
    ELSE IF method = "create" THEN <<"check", "save", "nested">>
    ELSE <<"supercheck", "save", "nested">>

\* the order of the statements of create and update
Steps(cls, method) ==
    IF cls = "Embedded" THEN <<"check", "build">>
    ELSE IF method = "create" THEN <<"check", "nested", "save">>
    ELSE <<"nested", "supercheck", "save">>

Phase(w) == Steps(w.cls, w.method)[w.phase]

WrittenInstance == Value("instance", 0, "", <<>>, <<>>)

Event(e, on) == [e |-> e, on |-> on]

\* an exception leaves the method
Leave(w, e) == [w EXCEPT !.op = "done", !.outcome = e]

\* the next statement, or the return of the instance
Proceed(w) ==
    IF w.phase = Len(Steps(w.cls, w.method))
        THEN [w EXCEPT !.op = "done", !.outcome = WrittenInstance]
        ELSE [w EXCEPT !.phase = @ + 1]

InitWrite ==
    /\ wr = [op |-> "ready"]
    /\ sers = <<>> /\ maps = <<>> /\ lookup = Idle
    /\ res = Idle /\ walk = Idle /\ rep = Idle /\ val = Idle /\ bld = Idle

\* serializer.create(validated_data) / serializer.update(instance, validated_data)
Call ==
    /\ wr.op = "ready"
    /\ \E method \in {"create", "update"}, cls \in {"Document", "Embedded"},
          embs \in WriteEmbedded :
        \E data \in SUBSET WriteKeys(embs) :
            wr' = [op |-> "running", method |-> method, cls |-> cls,
                   embs |-> embs, data |-> data, validated |-> data,
                   phase |-> 1, i |-> 1, pending |-> FALSE,
                   events |-> <<>>, outcome |-> Null,
                   failure |-> "", instance |-> {}]
    /\ UNCHANGED <<sers, maps, lookup, res, walk, rep, val, bld>>

\* raise_errors_on_nested_writes(method, self, validated_data)
CheckNestedWrites ==
    /\ wr.op = "running" /\ Phase(wr) = "check"
    /\ LET e == RaiseErrorsOnNestedWrites(WriteFields(wr.embs), wr.validated)
       IN  wr' = IF e # Null THEN Leave(wr, e) ELSE Proceed(wr)
    /\ UNCHANGED <<sers, maps, lookup, res, walk, rep, val, bld>>

\* the first statement of ModelSerializer.update, reached by super().update
SuperUpdateCheck ==
    /\ wr.op = "running" /\ Phase(wr) = "supercheck"
    /\ LET e == ModelSerializerRaiseErrors(WriteFields(wr.embs), wr.validated)
       IN  wr' = IF e # Null THEN Leave(wr, e) ELSE Proceed(wr)
    /\ UNCHANGED <<sers, maps, lookup, res, walk, rep, val, bld>>

\* embedded_field.create(embedded_field.validated_data) or
\* embedded_field.update(getattr(instance, name), embedded_field.validated_data):
\* EmbeddedDocumentSerializer.create / update of the sub-serializer
EmbeddedWrite ==
    /\ wr.op = "running" /\ Phase(wr) = "nested"
    /\ wr.i <= Len(wr.embs) /\ ~wr.pending
    /\ LET emb == wr.embs[wr.i]
           name == EmbeddedNames[wr.i]
       IN  wr' = IF emb.bad
                     THEN Leave(wr, AssertionError("dotted"))
                 ELSE IF wr.method = "update" /\ ~emb.existing
                     THEN Leave(wr, Raise("AttributeError"))
                 ELSE [wr EXCEPT !.pending = TRUE,
                                 !.events = Append(@,
                                     Event(IF wr.method = "create"
                                               THEN "constructed" ELSE "modified",
                                           name))]
    /\ UNCHANGED <<sers, maps, lookup, res, walk, rep, val, bld>>

\* validated_data[name] = embedded_doc_intance, or
\* setattr(instance, name, embedded_doc_intance)
Place ==
    /\ wr.op = "running" /\ Phase(wr) = "nested" /\ wr.pending
    /\ wr' = [wr EXCEPT !.pending = FALSE, !.i = @ + 1,
                        !.validated = IF wr.method = "create"
                                          THEN @ \cup {EmbeddedNames[wr.i]} ELSE @,
                        !.events = Append(@, Event("placed", EmbeddedNames[wr.i]))]
    /\ UNCHANGED <<sers, maps, lookup, res, walk, rep, val, bld>>

\* the loop over embedded_document_serializer_fields is over
LoopDone ==
    /\ wr.op = "running" /\ Phase(wr) = "nested"
    /\ wr.i > Len(wr.embs) /\ ~wr.pending
    /\ wr' = Proceed(wr)
    /\ UNCHANGED <<sers, maps, lookup, res, walk, rep, val, bld>>

\* the message of the exception that create raises in place of the one it
\* caught: the model's name, the serializer's name and the original text
WrappedAsTypeError(type) ==
    Value("raise", 0, "TypeError", <<>>, <<"ModelClass", "Serializer", type>>)

Wrapped(type) ==
    Value("raise", 0, type, <<>>, <<"ModelClass", "Serializer", type>>)

\* what the save of the model can raise; the last stands for the errors
\* that create has no except clause for
SaveFailures == {"TypeError", "ValidationError", "NotUniqueError"}

\* the attributes of ModelClass(**validated_data): the validated values, the
\* embedded documents where the sub-serializers' results were placed
InstanceOf(w) ==
    {<<k, IF \E p \in DOMAIN w.events : w.events[p] = Event("placed", k)
              THEN "document" ELSE "value">> : k \in w.validated}

\* create: instance = ModelClass(**validated_data); instance.save() inside
\* try / except TypeError / except me_ValidationError
\* update: setattr(instance, attr, value) for the validated data; instance.save()
Save ==
    /\ wr.op = "running" /\ Phase(wr) = "save"
    /\ \E r \in {"saved"} \cup SaveFailures :
        LET made == Event(IF wr.method = "create" THEN "constructed" ELSE "modified",
                          "self")
            after == [wr EXCEPT !.events = Append(@, made),
                                !.failure = IF r = "saved" THEN "" ELSE r]
        IN  wr' = IF r = "saved"
                      THEN Proceed([after EXCEPT !.events = Append(@, Event("saved", "self")),
                                                 !.instance = InstanceOf(wr)])
                  ELSE IF wr.method = "update" \/ r = "NotUniqueError"
                      THEN Leave(after, Raise(r))
                  ELSE Leave(after, Wrapped(r))
    /\ UNCHANGED <<sers, maps, lookup, res, walk, rep, val, bld>>

\* EmbeddedDocumentSerializer: return self.Meta.model(**validated_data), or
\* setattr(instance, attr, value) for the validated data; nothing is saved
Build ==
    /\ wr.op = "running" /\ Phase(wr) = "build"
    /\ wr' = Proceed([wr EXCEPT !.events =
                         Append(@, Event(IF wr.method = "create"
                                             THEN "constructed" ELSE "modified",
                                         "self")),
                                 !.instance = InstanceOf(wr)])
    /\ UNCHANGED <<sers, maps, lookup, res, walk, rep, val, bld>>

NextWrite ==
    \/ Call
    \/ CheckNestedWrites
    \/ SuperUpdateCheck
    \/ EmbeddedWrite
    \/ Place
    \/ LoopDone
    \/ Save
    \/ Build

SpecWrite == InitWrite /\ [][NextWrite]_vars

\* positions of the log where the serializer's own instance is saved
Saves == {p \in DOMAIN wr.events : wr.events[p].e = "saved"}

\* the sub-serializer of embedded field i returned at q and its result was
\* placed under the field name at r, both before position p
NestedDoneBefore(i, p) ==
    \E q, r \in 1..(p - 1) :
        /\ q < r
        /\ wr.events[q].on = EmbeddedNames[i]
        /\ wr.events[q].e \in {"constructed", "modified"}
        /\ wr.events[r] = Event("placed", EmbeddedNames[i])

RejectedKeys == {"city", "garage"}

\* C19: create and update of both serializer classes end with the
\* configuration error, before any instance is constructed, modified or
\* saved, when the validated data has a key of a dotted-source field or of a
\* nested serializer that is not an embedded one; data of embedded
\* sub-serializers is not rejected.
C19_RejectedBeforeAnyWrite ==
    wr.op = "done" =>
        /\ (wr.data \cap RejectedKeys # {}) =>
               /\ wr.outcome.t = "raise" /\ wr.outcome.cls = "AssertionError"
               /\ wr.events = <<>>
        /\ (/\ wr.data \cap RejectedKeys = {}
            /\ wr.cls = "Document" => \A i \in DOMAIN wr.embs : ~wr.embs[i].bad)
               => ~(wr.outcome.t = "raise" /\ wr.outcome.cls = "AssertionError")

C29_FailedUpdateLeavesInstance ==
    (wr.op = "done" /\ wr.cls = "Document" /\ wr.method = "update"
        /\ wr.outcome.t = "raise") =>
        \A p \in DOMAIN wr.events : wr.events[p].e \notin {"modified", "placed"}

\* ---------------------------------------------------------------------------
\* More claims about the chain map
\* ---------------------------------------------------------------------------

\* the last operation was a lookup of G that generated the views of A and G
GrandchildGenerated ==
    res.op = "getitem" /\ res.item = "G" /\ res.tiers = <<"A", "G">>

\* C22: when G is looked up while neither A nor G is cached, A's view is
\* generated first and cached, G's delta then holds only what G has and A
\* has not (z and its own n), G's view is chained onto A's view, and both
\* new views are in the cache when the lookup returns.
C22_GrandchildChainsOntoParent ==
    GrandchildGenerated =>
        /\ {"A", "G"} \subseteq DOMAIN lookup
        /\ res.view = lookup["G"]
        /\ DOMAIN maps[lookup["G"]].delta = Delta("G", "A")
        /\ maps[lookup["G"]].parent = lookup["A"]

\* C25: the view that the chain map of serializer S returns holds only nodes
\* built by and bound to S.
C25_ViewHoldsOwnNodesOnly ==
    (res.op = "getitem" /\ res.view # 0) =>
        \A node \in ChainNodes(maps, res.view) : node.ser = res.ser

\* C26: the lookup of a schema that is not a subclass of the chain map's base
\* schema ends with the AssertionError ("Can only serialize objects that
\* inherit from the base model."), whatever the cache holds, and returns no
\* view.
C26_ForeignSchemaIsRefused ==
    (res.op \in {"getitem", "AssertionError"}
        /\ ~IsSubclass(res.item, sers[res.ser].klass)) =>
        res.op = "AssertionError" /\ res.view = 0

\* C27: the names a cached view resolves, and the schema whose declaration
\* each name resolves to, are those of the schema's own _fields, whichever
\* views were generated before it and in whichever order.
C27_ResolutionIsOrderIndependent ==
    \A c \in DOMAIN lookup :
        /\ ChainKeys(maps, lookup[c]) = DOMAIN ClassFields(c)
        /\ \A n \in DOMAIN ClassFields(c) :
               LET node == ChainLookup(maps, lookup[c], n)
               IN  <<node.name, node.decl>> = ClassFields(c)[n]

\* the grandchild was looked up before its parent had a view, and the
\* sibling branch was generated parent first
C27_Witness ==
    /\ GrandchildGenerated
    /\ {"B", "H"} \subseteq DOMAIN lookup
    /\ lookup["B"] < lookup["A"]

\* ---------------------------------------------------------------------------
\* The per-class field cache of DynamicField and DictField
\*
\* `serializers` is a class attribute of each of the two field classes: one
\* dictionary for all DynamicField nodes, one for all DictField nodes.  In
\* this specification walk holds the keys of both and the log of the
\* document values the nodes met:
\*   field    "dyn" or "dict"
\*   depth    the depth budget of the node
\*   cls      the runtime class of the value
\*   cached   the class was a key of the dictionary when the value was met
\*   built    get_document_subfields built a field set for the value
\* ---------------------------------------------------------------------------
\* document values met by the two field classes in one run
MaxValues == 2

\* type(cls): the metaclass of a document class
TypeOf(cls) ==
    IF cls = "Doc" THEN "TopLevelDocumentMetaclass" ELSE "DocumentMetaclass"

\* `if type(cls) not in self.serializers`
NotInSerializers(cls, serializers) == TypeOf(cls) \notin serializers

\* the values a dynamic field and the items a dict field can hold
DynamicValues ==
    {EmbV("Mileage", <<IntV(1), IntV(2)>>),
     EmbV("Part", <<IntV(1), Null, EmptyList, EmptyMap>>),
     Stored("Doc", 1), IntV(1)}

DictItems ==
    {SonV("Mileage", <<IntV(1), IntV(2)>>),
     SonV("Part", <<IntV(1), Null, EmptyList, EmptyMap>>),
     DBRefV("Doc", 1), IntV(1)}

\* whether to_representation takes the branch that needs the field set
NeedsFields(depth, v) ==
    IF v.t \in {"doc", "dbref"} THEN GoDeeper(depth, TRUE)
    ELSE IF v.t \in {"emb", "son"} THEN GoDeeper(depth, FALSE)
    ELSE FALSE

\* one value met by a node of the field class: the keys of serializers
\* afterwards and the log entry
Meet(field, depth, v, serializers) ==
    LET build == NeedsFields(depth, v) /\ NotInSerializers(v.cls, serializers)
    IN  [serializers |-> IF build THEN serializers \cup {v.cls} ELSE serializers,
         entry |-> [field |-> field, depth |-> depth, cls |-> v.cls,
                    needs |-> NeedsFields(depth, v),
                    cached |-> v.cls \in serializers,
                    built |-> build]]

\* DictField.to_representation: for key in value, one item after the other
RECURSIVE MeetItems(_, _, _, _, _)
MeetItems(depth, items, i, serializers, log) ==
    IF i > Len(items) THEN [serializers |-> serializers, log |-> log]
    ELSE LET m == Meet("dict", depth, items[i], serializers)
         IN  MeetItems(depth, items, i + 1, m.serializers, Append(log, m.entry))

InitCache ==
    /\ walk = [op |-> "fields", dyn |-> {}, dict |-> {}, log |-> <<>>]
    /\ sers = <<>> /\ maps = <<>> /\ lookup = Idle
    /\ res = Idle /\ rep = Idle /\ val = Idle /\ bld = Idle /\ wr = Idle

\* DynamicField.to_representation(value) of a node with the given depth
DynamicFieldToRepresentation ==
    /\ Len(walk.log) < MaxValues
    /\ \E depth \in 0..MaxDepth, v \in DynamicValues :
        LET m == Meet("dyn", depth, v, walk.dyn)
        IN  walk' = [walk EXCEPT !.dyn = m.serializers, !.log = Append(@, m.entry)]
    /\ UNCHANGED <<sers, maps, lookup, res, rep, val, bld, wr>>

\* DictField.to_representation(value) of a node with the given depth, the
\* value a dict of one or two items
DictFieldToRepresentation ==
    /\ \E depth \in 0..MaxDepth, n \in 1..2 :
        /\ Len(walk.log) + n <= MaxValues
        /\ \E items \in [1..n -> DictItems] :
            LET m == MeetItems(depth, items, 1, walk.dict, walk.log)
            IN  walk' = [walk EXCEPT !.dict = m.serializers, !.log = m.log]
    /\ UNCHANGED <<sers, maps, lookup, res, rep, val, bld, wr>>

NextCache == DynamicFieldToRepresentation \/ DictFieldToRepresentation

SpecCache == InitCache /\ [][NextCache]_vars

\* C24: once a dynamic or dict field has built the field set of a runtime
\* document class, a later value of that class is represented with the
\* cached field set: no field nodes are built for it.
C24_CachedClassIsNotRebuilt ==
    \A i \in DOMAIN walk.log : walk.log[i].cached => ~walk.log[i].built

\* C23: an embedded-document node whose depth budget is used up (0 or less)
\* never expands a value: asked for the attribute or for the representation
\* of a non-null value it raises the out-of-depth exception, whether it is
\* the serializer's own field or the child of another node.
C23_ExhaustedEmbeddedAlwaysSignals ==
    walk.op = "represented" =>
        /\ (Desc(walk.fld).k = "emb" /\ walk.depth <= 0) =>
               walk.out = Raise("OutOfDepth")
        /\ \A e \in walk.expands : e.kind = "emb" => e.depth > 0

\* ---------------------------------------------------------------------------
\* field_mapping as state
\*
\* field_mapping is a dictionary held by the class DocumentSerializer; every
\* serializer class that does not define its own reads and writes that one
\* object through self.field_mapping.  In this specification bld holds
\*   mapping   the dictionary
\*   built     the classes of the serializers constructed so far
\*   last      the last get_field_mapping call: the serializer, the model
\*             field class and what was returned
\* ---------------------------------------------------------------------------
\* serializers constructed in one run
MaxBuilt == 3

\* get_field_mapping against the dictionary as it is now
GetFieldMappingIn(mapping, c) ==
    LET classes == Mro(c)
        hits    == {i \in DOMAIN classes : classes[i] \in DOMAIN mapping}
    IN  IF hits = {} THEN NoMapping
        ELSE mapping[classes[CHOOSE i \in hits : \A j \in hits : i <= j]]

InitMapping ==
    /\ bld = [op |-> "mapping", mapping |-> FieldMapping, built |-> <<>>,
              last |-> [ser |-> 0, cls |-> "", ctor |-> NoMapping]]
    /\ sers = <<>> /\ maps = <<>> /\ lookup = Idle
    /\ res = Idle /\ walk = Idle /\ rep = Idle /\ val = Idle /\ wr = Idle

\* DocumentSerializer.__init__: the mapping is left alone
NewDocumentSerializer ==
    /\ Len(bld.built) < MaxBuilt
    /\ bld' = [bld EXCEPT !.built = Append(@, "DocumentSerializer")]
    /\ UNCHANGED <<sers, maps, lookup, res, walk, rep, val, wr>>

\* PolymorphicDocumentSerializer.__init__:
\* self.field_mapping[me_fields.EmbeddedDocumentField] = PolymorphicEmbeddedDocumentField
NewPolymorphicSerializer ==
    /\ Len(bld.built) < MaxBuilt
    /\ bld' = [bld EXCEPT
                  !.built = Append(@, "PolymorphicDocumentSerializer"),
                  !.mapping = [@ EXCEPT !["EmbeddedDocumentField"] =
                                            "PolymorphicEmbeddedDocumentField"]]
    /\ UNCHANGED <<sers, maps, lookup, res, walk, rep, val, wr>>

\* serializer.get_field_mapping(field) of one of the serializers
CallGetFieldMapping ==
    /\ \E s \in DOMAIN bld.built, c \in FieldClasses :
        bld' = [bld EXCEPT !.last = [ser |-> s, cls |-> c,
                                     ctor |-> GetFieldMappingIn(bld.mapping, c)]]
    /\ UNCHANGED <<sers, maps, lookup, res, walk, rep, val, wr>>

NextMapping ==
    \/ NewDocumentSerializer
    \/ NewPolymorphicSerializer
    \/ CallGetFieldMapping

SpecMapping == InitMapping /\ [][NextMapping]_vars

\* C28: a plain DocumentSerializer maps every model field class, the
\* embedded-document field included, to the constructor of the class-level
\* table, whether or not a PolymorphicDocumentSerializer was constructed
\* before.
C28_PlainMappingUnchanged ==
    (bld.last.ser # 0 /\ bld.built[bld.last.ser] = "DocumentSerializer") =>
        bld.last.ctor = GetFieldMapping(bld.last.cls)

\* ---------------------------------------------------------------------------
\* ld.py: the namespace of references
\*
\* In this specification res holds the two module globals, two Namespaced
\* objects and the blocks that are open:
\*   NAMESPACE     the lookup function in force (a name stands for a function)
\*   RESOLVE_URI   the flag
\*   objs          the Namespaced objects: lookup and uri as constructed,
\*                 reverse and resolve as saved by the last __enter__
\*   stack         the objects whose with-block is open, innermost last
\*   last          the last call of the patched to_mongo
\* ---------------------------------------------------------------------------
\* with-blocks open at the same time
MaxNest == 3

\* def NAMESPACE(type, id), the function of the module
DefaultNamespace == "NAMESPACE"

NoCall == [open |-> FALSE, invoked |-> FALSE, out |-> <<>>]

\* Namespaced(lookup, uri): nothing saved yet
NewNamespaced(fn, uri) ==
    [lookup |-> fn, uri |-> uri, reverse |-> "unset", resolve |-> FALSE]

InitLd ==
    /\ \E u1, u2 \in BOOLEAN :
        res = [op |-> "ld", NAMESPACE |-> DefaultNamespace, RESOLVE_URI |-> FALSE,
               objs |-> <<NewNamespaced("f", u1), NewNamespaced("g", u2)>>,
               stack |-> <<>>, last |-> NoCall]
    /\ sers = <<>> /\ maps = <<>> /\ lookup = Idle
    /\ walk = Idle /\ rep = Idle /\ val = Idle /\ bld = Idle /\ wr = Idle

\* Namespaced.__enter__
Enter ==
    /\ Len(res.stack) < MaxNest
    /\ \E o \in DOMAIN res.objs :
        res' = [res EXCEPT
                   !.objs[o].reverse = res.NAMESPACE,
                   !.objs[o].resolve = res.RESOLVE_URI,
                   !.NAMESPACE = res.objs[o].lookup,
                   !.RESOLVE_URI = res.objs[o].uri,
                   !.stack = Append(@, o)]
    /\ UNCHANGED <<sers, maps, lookup, walk, rep, val, bld, wr>>

\* Namespaced.__exit__ of the innermost open block, at the end of the block
\* or when an exception leaves it: the same statements either way
Exit ==
    /\ res.stack # <<>>
    /\ LET o == res.stack[Len(res.stack)]
       IN  res' = [res EXCEPT
                      !.NAMESPACE = res.objs[o].reverse,
                      !.RESOLVE_URI = res.objs[o].resolve,
                      !.stack = SubSeq(@, 1, Len(@) - 1)]
    /\ UNCHANGED <<sers, maps, lookup, walk, rep, val, bld, wr>>

\* the patched ReferenceField.to_mongo(document)
ToMongo ==
    /\ \E id \in StoredIds :
        res' = [res EXCEPT !.last =
                   [open |-> \E i \in DOMAIN res.stack : res.objs[res.stack[i]].uri,
                    invoked |-> res.RESOLVE_URI,
                    out |-> IF ~res.RESOLVE_URI THEN <<id>>
                            ELSE <<res.NAMESPACE, "Doc", id>>]]
    /\ UNCHANGED <<sers, maps, lookup, walk, rep, val, bld, wr>>

NextLd == Enter \/ Exit \/ ToMongo

SpecLd == InitLd /\ [][NextLd]_vars

\* C30: when every block that was entered has been left, the lookup function
\* and the flag are those from before the outermost enter; and a to_mongo
\* call made while no block with uri=True is open returns the plain identity
\* without calling the lookup.
C30_GlobalsRestored ==
    /\ res.stack = <<>> =>
           res.NAMESPACE = DefaultNamespace /\ res.RESOLVE_URI = FALSE
    /\ ~res.last.open => ~res.last.invoked /\ Len(res.last.out) <= 1

====
